---- MODULE Spec2Model ----
(***************************************************************************)
(* Mandatory-subscription moderation bot (zzsxd/tgbotsergey).              *)
(*                                                                         *)
(* The model covers the configuration store (app/storage.py), the TTL      *)
(* caches (app/cache.py), the subscription checker (app/subscription.py)   *)
(* and the event handlers of app/handlers.py.  Every handler is a          *)
(* coroutine: it runs atomically between two awaited platform calls, and   *)
(* other handlers may run while it waits for the platform's reply.         *)
(*                                                                         *)
(* Python strings are sequences of one-character strings; the cache keys   *)
(* f"notice:{chat}:{user}" are tuples <<chat, user>> (formatting two       *)
(* integers around a ":" is injective).                                    *)
(***************************************************************************)
EXTENDS Integers, Sequences, FiniteSets, TLC

VARIABLES
    now,                \* time.monotonic()
    ticks,              \* number of clock advances so far
    chat_id,            \* config file: "chat_id"
    required_channels,  \* config file: "required_channels"
    static_channels,    \* settings.required_channels (from the environment)
    sub_cache,          \* SubscriptionService.cache._data
    notice_cache,       \* handlers._notice_cache._data
    last_notice,        \* handlers._last_notice_message._data
    welcomed_cache,     \* handlers._welcomed_cache._data
    task,               \* the handler coroutines, one per update
    timers,             \* pending _delete_message_later tasks
    next_id,            \* next message id the platform hands out
    sent,               \* messages the bot has posted
    attempts,           \* delete_message calls the platform has answered
    fn,                 \* scratch record of the pure-function specifications
    store,              \* the ConfigStore calls in progress, their locks and files
    admins,             \* setup_admin: the allowlist ADMIN_USER_IDS
    script              \* the updates and platform answers fixed in advance

vars == <<now, ticks, chat_id, required_channels, static_channels, sub_cache,
          notice_cache, last_notice, welcomed_cache, task, timers, next_id,
          sent, attempts, fn, store, admins, script>>

\* Optional[int] None (chat ids and message ids are never 0; "if msg_id" is
\* false for both); a None string is the empty string, equally falsy
NoneId == 0
NoStr == <<>>

-----------------------------------------------------------------------------
(* Bounds of the model.                                                    *)

MaxTasks == 2
MaxTicks == 1
MaxOps == 2
MaxLen == 3
MaxNow == 22
MaxSent == 2

(* Program constants.                                                      *)

NotifyTtl == 10
CacheTtl == 10
LastNoticeTtl == 3600
WelcomeTtl == 604800
DeleteDelay == 20

-----------------------------------------------------------------------------
(* Input alphabets.                                                        *)

Users == {1, 2}
Tasks == 1..MaxTasks

\* "@Ab" and "-1009": a public channel and a private one
ChanAb == <<"@", "A", "b">>
Chan1009 == <<"-", "1", "0", "0", "9">>
ChannelInputs == {ChanAb, Chan1009}
StaticChoices == {<<>>, <<ChanAb>>}
FlowChannels == {Chan1009}

TargetIds == {-5}
MsgChats == {-5, -1005, -7}

\* chats a chat_member update can come from: id and username (None if private)
EventChats ==
    { [id |-> -1009, username |-> NoStr],
      [id |-> -9,    username |-> NoStr],
      [id |-> -77,   username |-> <<"a", "B">>] }

TickSteps == {DeleteDelay}

-----------------------------------------------------------------------------
(* Python string and integer helpers.                                      *)

DigitChars == <<"0", "1", "2", "3", "4", "5", "6", "7", "8", "9">>

IsDigitChar(c) == \E i \in 1..10 : DigitChars[i] = c

\* str.isdigit(): non-empty and made of digits only
IsDigit(s) == Len(s) > 0 /\ \A i \in 1..Len(s) : IsDigitChar(s[i])

RECURSIVE LStrip(_, _)
\* str.lstrip(ch)
LStrip(s, ch) ==
    IF Len(s) > 0 /\ s[1] = ch THEN LStrip(Tail(s), ch) ELSE s

RECURSIVE RStrip(_, _)
RStrip(s, ch) ==
    IF Len(s) > 0 /\ s[Len(s)] = ch THEN RStrip(SubSeq(s, 1, Len(s) - 1), ch) ELSE s

\* str.strip() over the whitespace of the alphabet
Strip(s) == RStrip(LStrip(s, " "), " ")

\* val.lstrip("-").isdigit()
IsNumericIdent(s) == IsDigit(LStrip(s, "-"))

LowerChar(c) ==
    CASE c = "A" -> "a"
      [] c = "B" -> "b"
      [] OTHER -> c

\* str.lower()
Lower(s) == [i \in 1..Len(s) |-> LowerChar(s[i])]

StartsWith(s, p) == Len(s) >= Len(p) /\ SubSeq(s, 1, Len(p)) = p

Abs(n) == IF n < 0 THEN -n ELSE n

RECURSIVE StrNat(_)
\* str(n) for n >= 0
StrNat(n) ==
    IF n < 10 THEN <<DigitChars[n + 1]>>
    ELSE StrNat(n \div 10) \o <<DigitChars[(n % 10) + 1]>>

\* str(n)
Str(n) == IF n < 0 THEN <<"-">> \o StrNat(-n) ELSE StrNat(n)

DigitVal(c) == CHOOSE i \in 0..9 : DigitChars[i + 1] = c

RECURSIVE NatOf(_)
NatOf(s) ==
    IF Len(s) = 0 THEN 0
    ELSE 10 * NatOf(SubSeq(s, 1, Len(s) - 1)) + DigitVal(s[Len(s)])

\* int(s) for a well-formed decimal string
IntOf(s) == IF Len(s) > 0 /\ s[1] = "-" THEN -NatOf(Tail(s)) ELSE NatOf(s)

-----------------------------------------------------------------------------
(* handlers.py: _is_target_chat                                            *)

_is_target_chat(current_chat_id, target_chat_id) ==
    IF target_chat_id = NoneId THEN TRUE
    ELSE IF current_chat_id = target_chat_id THEN TRUE
    ELSE LET abs_target == StrNat(Abs(target_chat_id))
             abs_current == StrNat(Abs(current_chat_id))
         IN  IF ~StartsWith(abs_target, <<"1", "0", "0">>)
                  /\ abs_current = (<<"1", "0", "0">> \o abs_target)
             THEN TRUE
             ELSE IF StartsWith(abs_target, <<"1", "0", "0">>)
                        /\ SubSeq(abs_target, 4, Len(abs_target)) = abs_current
                  THEN TRUE
                  ELSE FALSE

-----------------------------------------------------------------------------
(* cache.py: TTLMemoryCache and TTLKVCache.  A dict is a function whose    *)
(* domain is the set of keys present.                                      *)

EmptyDict == <<>>

DictPut(d, k, v) == [x \in (DOMAIN d) \cup {k} |-> IF x = k THEN v ELSE d[x]]

DictPop(d, k) == [x \in (DOMAIN d) \ {k} |-> d[x]]

\* variant: the dict is replaced by one that holds the new entry alone
set_until_alone(data, key, ttl_seconds) == [x \in {key} |-> now + ttl_seconds]

\* TTLMemoryCache.set_until
set_until(data, key, ttl_seconds) == DictPut(data, key, now + ttl_seconds)

\* variant: an entry counts as expired from its expiry instant on
contains_until_before(data, key) ==
    IF key \notin DOMAIN data THEN FALSE
    ELSE IF data[key] <= now THEN FALSE
    ELSE TRUE

\* TTLMemoryCache.contains: the value returned
contains(data, key) ==
    IF key \notin DOMAIN data THEN FALSE
    ELSE IF data[key] < now THEN FALSE
    ELSE TRUE

\* variant: an expired entry is reported absent and left in the dict
contains_data_kept(data, key) == data

\* TTLMemoryCache.contains: the dict it leaves (lazy eviction)
contains_data(data, key) ==
    IF key \notin DOMAIN data THEN data
    ELSE IF data[key] < now THEN DictPop(data, key)
    ELSE data

\* TTLKVCache.set
kv_set(data, key, value, ttl_seconds) ==
    DictPut(data, key, [exp |-> now + ttl_seconds, value |-> value])

\* TTLKVCache.get: the value returned (NoneId for None)
kv_get(data, key) ==
    IF key \notin DOMAIN data THEN NoneId
    ELSE IF data[key].exp < now THEN NoneId
    ELSE data[key].value

\* TTLKVCache.get: the dict it leaves (lazy eviction)
kv_get_data(data, key) ==
    IF key \notin DOMAIN data THEN data
    ELSE IF data[key].exp < now THEN DictPop(data, key)
    ELSE data

\* TTLKVCache.delete
kv_delete(data, key) == DictPop(data, key)

-----------------------------------------------------------------------------
(* storage.py: ConfigStore.  The asyncio lock is never held across a       *)
(* suspension point, so every store call is atomic.                        *)

\* the identifier add_channel stores for its argument
add_channel_norm(channel) ==
    LET norm == Strip(channel)
    IN  IF ~IsNumericIdent(norm) /\ ~StartsWith(norm, <<"@">>)
        THEN <<"@">> \o norm
        ELSE norm

\* variant: the duplicate test looks for the argument as it was passed
add_channel_ret_raw(channels, channel) ==
    IF Strip(channel) = <<>> THEN FALSE
    ELSE IF \E i \in 1..Len(channels) : channels[i] = channel
         THEN FALSE
         ELSE TRUE

\* ConfigStore.add_channel: the value returned
add_channel_ret(channels, channel) ==
    IF Strip(channel) = <<>> THEN FALSE
    ELSE IF \E i \in 1..Len(channels) : channels[i] = add_channel_norm(channel)
         THEN FALSE
         ELSE TRUE

\* ConfigStore.add_channel: the list it leaves in the file
add_channel_list(channels, channel) ==
    IF add_channel_ret(channels, channel)
    THEN Append(channels, add_channel_norm(channel))
    ELSE channels

\* list.remove(value): drops the first occurrence
ListRemove(channels, value) ==
    LET i == CHOOSE j \in 1..Len(channels) :
                 channels[j] = value /\ \A k \in 1..(j - 1) : channels[k] # value
    IN  SubSeq(channels, 1, i - 1) \o SubSeq(channels, i + 1, Len(channels))

\* ConfigStore.remove_channel: the value returned
remove_channel_ret(channels, value) ==
    \E i \in 1..Len(channels) : channels[i] = value

\* ConfigStore.remove_channel: the list it leaves in the file
remove_channel_list(channels, value) ==
    IF remove_channel_ret(channels, value) THEN ListRemove(channels, value)
    ELSE channels

\* variant: the static list is added to the stored one
channels_and_static == required_channels \o static_channels

\* "await store.list_channels() or settings.required_channels"
channels_or_static ==
    IF required_channels # <<>> THEN required_channels ELSE static_channels

-----------------------------------------------------------------------------
(* The normalizers of channel identifiers.  The text "https://t.me/" is    *)
(* one element of a string here.                                           *)

TMe == "https://t.me/"

RECURSIVE AfterLast(_, _)
\* value.split(sep)[-1]: what follows the last sep in value
AfterLast(value, sep) ==
    IF \E i \in 1..Len(value) : value[i] = sep
    THEN AfterLast(Tail(value), sep)
    ELSE value

\* variant: "@" is put in front of every identifier that is not numeric
_normalize_identifier_always_at(value) ==
    LET v1 == Strip(value)
        v2 == IF StartsWith(v1, <<TMe>>) THEN AfterLast(v1, TMe) ELSE v1
    IN  IF IsNumericIdent(v2) THEN v2
        ELSE <<"@">> \o v2

\* storage.py lines 97-106
_normalize_identifier(value) ==
    LET v1 == Strip(value)
        v2 == IF StartsWith(v1, <<TMe>>) THEN AfterLast(v1, TMe) ELSE v1
    IN  IF IsNumericIdent(v2) THEN v2
        ELSE IF ~StartsWith(v2, <<"@">>) THEN <<"@">> \o v2
        ELSE v2

\* config.py lines 28-40: what _parse_required_channels makes of one item
\* p of the comma-separated value, p.strip() not empty
_parse_required_channels_item(p) ==
    LET part == Strip(p)
        u1 == IF StartsWith(part, <<TMe>>) THEN AfterLast(part, TMe) ELSE part
    IN  IF IsNumericIdent(part) THEN part
        ELSE IF ~StartsWith(u1, <<"@">>) THEN <<"@">> \o u1
        ELSE u1

-----------------------------------------------------------------------------
(* Handler coroutines.                                                     *)

NoReply == [r |-> "none", id |-> 0, is_member |-> FALSE]

IdleTask ==
    [kind |-> "idle", pc |-> "idle",
     chat |-> 0,        \* message.chat.id / event.chat.id
     uname |-> NoStr,   \* event.chat.username
     from |-> "none",   \* message.from_user: "none", "bot" or "user"
     service |-> FALSE, \* new_chat_members / left_chat_member is set
     user |-> 0,        \* the sender / the member the event is about
     msg |-> 0,         \* message.message_id (users' messages: below 0)
     kchat |-> 0,       \* chat id used in the cache key and as destination
     chans |-> <<>>,    \* is_fully_subscribed: channels
     listed |-> FALSE,  \* is_fully_subscribed read the channel list
     nch |-> 0,         \* len(channels) in is_fully_subscribed
     nq |-> 0,          \* get_chat_member calls issued
     cvals |-> <<>>,    \* channels_values
     idx |-> 0,         \* position in the loop over channels
     del_id |-> 0,      \* message id of the awaited delete_message
     request_id |-> 0,  \* message.chat_shared.request_id
     shared |-> 0,      \* message.chat_shared.chat_id
     ret |-> "none",    \* result of is_fully_subscribed
     exc |-> FALSE,     \* an exception left the handler
     reply |-> NoReply, \* the platform's answer to the awaited call
     trace |-> <<>>]    \* the calls and cache lookups made, in order

Tr(t, tag) == [t EXCEPT !.trace = Append(@, tag)]

\* the handler returns: its frame is dropped
Finish(t) ==
    [t EXCEPT !.pc = "done", !.chans = <<>>, !.cvals = <<>>, !.idx = 0,
              !.del_id = 0, !.reply = NoReply]

Awaiting(p, pcs) == task[p].pc \in pcs /\ task[p].reply = NoReply

Resumed(p, pcs) == task[p].pc \in pcs /\ task[p].reply # NoReply

\* updates are dispatched in the order they arrive
CanStart(p) ==
    /\ task[p].pc = "idle"
    /\ \A q \in Tasks : q < p => task[q].pc # "idle"

-----------------------------------------------------------------------------
(* subscription.py: SubscriptionService.is_fully_subscribed                *)

MemberReplies ==
    { [r |-> s, id |-> 0, is_member |-> FALSE] :
        s \in {"creator", "administrator", "member", "restricted", "left",
               "kicked", "bad_request", "forbidden"} }
    \cup { [r |-> "restricted", id |-> 0, is_member |-> TRUE] }

\* the answers drawn where whole handler flows interleave
FlowReplies == { r \in MemberReplies : r.r \in {"member", "left", "forbidden"} }

\* lines 48-51: the exceptions the loop catches
Refused(reply) == reply.r \in {"bad_request", "forbidden"}

\* variant: "restricted" passes without a look at is_member
status_ok_any_restricted(reply) ==
    reply.r \in {"creator", "administrator", "member", "restricted"}

\* lines 53-60: the statuses that let the loop go on
status_ok(reply) ==
    \/ reply.r \in {"creator", "administrator", "member"}
    \/ (reply.r = "restricted" /\ reply.is_member)

\* variant: with no channel to check the answer is false
is_fully_subscribed_begin_empty_fails(user_id) ==
    IF contains(sub_cache, user_id)
    THEN [ret |-> "true", sub |-> contains_data(sub_cache, user_id),
          chans |-> <<>>, listed |-> FALSE]
    ELSE IF channels_or_static = <<>>
         THEN [ret |-> "false", sub |-> contains_data(sub_cache, user_id),
               chans |-> <<>>, listed |-> TRUE]
         ELSE [ret |-> "none", sub |-> contains_data(sub_cache, user_id),
               chans |-> channels_or_static, listed |-> TRUE]

\* variant: a cache hit stores the entry anew
is_fully_subscribed_begin_refresh(user_id) ==
    IF contains(sub_cache, user_id)
    THEN [ret |-> "true", sub |-> set_until(sub_cache, user_id, CacheTtl),
          chans |-> <<>>, listed |-> FALSE]
    ELSE IF channels_or_static = <<>>
         THEN [ret |-> "true",
               sub |-> set_until(contains_data(sub_cache, user_id), user_id, CacheTtl),
               chans |-> <<>>, listed |-> TRUE]
         ELSE [ret |-> "none", sub |-> contains_data(sub_cache, user_id),
               chans |-> channels_or_static, listed |-> TRUE]

\* lines 31-43, and 62-64 when the list is empty: up to the first query
is_fully_subscribed_begin(user_id) ==
    IF contains(sub_cache, user_id)
    THEN [ret |-> "true", sub |-> contains_data(sub_cache, user_id),
          chans |-> <<>>, listed |-> FALSE]
    ELSE IF channels_or_static = <<>>
         THEN [ret |-> "true",
               sub |-> set_until(contains_data(sub_cache, user_id), user_id, CacheTtl),
               chans |-> <<>>, listed |-> TRUE]
         ELSE [ret |-> "none", sub |-> contains_data(sub_cache, user_id),
               chans |-> channels_or_static, listed |-> TRUE]

\* lines 45-64: one turn of the loop, on the reply to get_chat_member
is_fully_subscribed_reply(t) ==
    IF Refused(t.reply) THEN [ret |-> "false", sub |-> sub_cache]
    ELSE IF ~status_ok(t.reply) THEN [ret |-> "false", sub |-> sub_cache]
    ELSE IF t.idx < Len(t.chans) THEN [ret |-> "none", sub |-> sub_cache]
    ELSE [ret |-> "true", sub |-> set_until(sub_cache, t.user, CacheTtl)]

-----------------------------------------------------------------------------
(* handlers.py: the pieces the handlers share                              *)

RECURSIVE ComposeFrom(_, _)
\* the loop over channels_values, from position i up to the next awaited
\* get_chat (a numeric identifier) or to the send of the reminder
ComposeFrom(t, i) ==
    IF i > Len(t.cvals) THEN Tr([t EXCEPT !.pc = "send", !.idx = i], "send")
    ELSE IF IsNumericIdent(t.cvals[i]) THEN [t EXCEPT !.pc = "get_chat", !.idx = i]
    ELSE ComposeFrom(t, i + 1)

\* the required-channel test of on_leave_required_channel and
\* on_join_required_channel
is_required_channel(chat, uname) ==
    LET channels == channels_or_static
        required_usernames ==
            { Lower(channels[i]) : i \in { j \in 1..Len(channels) : ~IsNumericIdent(channels[j]) } }
        required_ids ==
            { IntOf(channels[i]) : i \in { j \in 1..Len(channels) : IsNumericIdent(channels[j]) } }
        username == IF uname # NoStr THEN <<"@">> \o Lower(uname) ELSE NoStr
    IN  \/ (username # NoStr /\ username \in required_usernames)
        \/ chat \in required_ids

\* what follows "await subs.is_fully_subscribed(user_id)" in guard_message
\* (lines 91-107), in on_join_required_channel (lines 295-308) and in
\* guard_edited_message (lines 384-386)
AfterSub(p, t, ret) ==
    IF ret = "none"
    THEN /\ task' = [task EXCEPT ![p] = [t EXCEPT !.pc = "sub_q", !.nq = @ + 1, !.reply = NoReply]]
         /\ UNCHANGED last_notice
    ELSE IF t.kind = "edited"
    THEN /\ UNCHANGED last_notice
         /\ task' = [task EXCEPT ![p] =
               IF ret = "true"
               THEN Finish([t EXCEPT !.ret = "true", !.reply = NoReply])
               ELSE Tr([t EXCEPT !.ret = "false", !.reply = NoReply,
                                 !.pc = "del_edit", !.del_id = t.msg], "del_edit")]
    ELSE IF ret = "true"
    THEN LET target == IF t.kind = "join" THEN chat_id ELSE t.chat
             key == <<target, t.user>>
             msg_id == kv_get(last_notice, key)
             t1 == [t EXCEPT !.ret = "true", !.reply = NoReply]
         IN  IF target = NoneId
             THEN /\ task' = [task EXCEPT ![p] = Finish(t1)]
                  /\ UNCHANGED last_notice
             ELSE /\ last_notice' = kv_get_data(last_notice, key)
                  /\ task' = [task EXCEPT ![p] =
                        IF msg_id # NoneId
                        THEN Tr([t1 EXCEPT !.pc = "del_old", !.kchat = target,
                                           !.del_id = msg_id], "get_last")
                        ELSE Finish(Tr([t1 EXCEPT !.kchat = target], "get_last"))]
    ELSE LET t1 == [t EXCEPT !.ret = "false", !.reply = NoReply]
         IN  /\ UNCHANGED last_notice
             /\ task' = [task EXCEPT ![p] =
                   IF t.kind = "guard"
                   THEN Tr([t1 EXCEPT !.pc = "del_msg", !.del_id = t.msg], "del_msg")
                   ELSE Finish(t1)]

\* the call of is_fully_subscribed and what follows it
CallSub(p, t) ==
    LET b == is_fully_subscribed_begin(t.user)
    IN  /\ sub_cache' = b.sub
        /\ AfterSub(p, Tr([t EXCEPT !.chans = b.chans, !.listed = b.listed,
                                    !.nch = Len(b.chans), !.idx = 1, !.nq = 0],
                           "sub"), b.ret)

-----------------------------------------------------------------------------
(* handlers.py: guard_message                                              *)

\* the updates guard_message is given: a channel post without sender, a
\* bot's message, a join/leave service message, and users' messages
Messages ==
    { [chat |-> -5, from |-> "none", user |-> 0, service |-> FALSE],
      [chat |-> -5, from |-> "bot", user |-> 9, service |-> FALSE],
      [chat |-> -5, from |-> "user", user |-> 1, service |-> TRUE] }
    \cup { [chat |-> c, from |-> "user", user |-> u, service |-> FALSE] :
              c \in MsgChats, u \in Users }

\* one user's messages in the target chat and in its "-100" form
EventMessages == { m \in Messages : m.user = 1 /\ ~m.service /\ m.chat # -7 }

\* users are interchangeable: user u + 1 appears only after user u
Fresh(u) == u = 1 \/ \E q \in Tasks : task[q].user = u - 1 \/ task[q].user = u

\* variant: the test of the chat against the stored target is left out
guard_returns_early_unless_target_set(m) ==
    \/ m.from # "user"
    \/ m.service
    \/ chat_id = NoneId

\* lines 64-76: the early returns of guard_message
guard_returns_early(m) ==
    \/ m.from # "user"
    \/ m.service
    \/ chat_id = NoneId
    \/ ~_is_target_chat(m.chat, chat_id)

\* lines 62-90, up to the first awaited call
guard_message(p, m) ==
    /\ CanStart(p)
    /\ LET chat == m.chat
           t == [IdleTask EXCEPT !.kind = "guard", !.chat = chat, !.kchat = chat,
                                 !.from = m.from, !.user = m.user,
                                 !.service = m.service, !.msg = -p]
           welcome_key == <<chat, m.user>>
       IN  IF guard_returns_early(m)
           THEN /\ task' = [task EXCEPT ![p] = Finish(t)]
                /\ UNCHANGED <<welcomed_cache, sub_cache, last_notice>>
           ELSE /\ welcomed_cache' = contains_data(welcomed_cache, welcome_key)
                /\ IF ~contains(welcomed_cache, welcome_key)
                   THEN /\ task' = [task EXCEPT ![p] = Tr([t EXCEPT !.pc = "greet"], "greet")]
                        /\ UNCHANGED <<sub_cache, last_notice>>
                   ELSE CallSub(p, t)
    /\ UNCHANGED <<now, ticks, chat_id, required_channels, static_channels,
                   notice_cache, timers, next_id, sent, attempts, fn, store, admins, script>>

\* lines 85-91: the greeting was sent, or message.answer raised
guard_greeted(p) ==
    /\ Resumed(p, {"greet"})
    /\ task[p].kind = "guard"
    /\ LET t == task[p]
       IN  /\ IF t.reply.r = "ok"
              THEN /\ timers' = timers \cup
                          {[chat |-> t.chat, id |-> t.reply.id, wake |-> now + DeleteDelay]}
                   /\ welcomed_cache' = set_until(welcomed_cache, <<t.chat, t.user>>, WelcomeTtl)
              ELSE UNCHANGED <<timers, welcomed_cache>>
           /\ CallSub(p, [t EXCEPT !.reply = NoReply])
    /\ UNCHANGED <<now, ticks, chat_id, required_channels, static_channels,
                   notice_cache, next_id, sent, attempts, fn, store, admins, script>>

\* subscription.py lines 45-64 on a reply, then handlers.py lines 91-107 or
\* 295-308
subscription_reply(p) ==
    /\ Resumed(p, {"sub_q"})
    /\ LET t == task[p]
           s == is_fully_subscribed_reply(t)
       IN  /\ sub_cache' = s.sub
           /\ AfterSub(p, [t EXCEPT !.idx = IF s.ret = "none" THEN @ + 1 ELSE @], s.ret)
    /\ UNCHANGED <<now, ticks, chat_id, required_channels, static_channels,
                   notice_cache, welcomed_cache, timers, next_id, sent, attempts, fn, store, admins, script>>

\* variant: the tracking entry is kept when the delete raised
old_notice_deleted_on_success(p) ==
    /\ Resumed(p, {"del_old"})
    /\ LET t == task[p]
       IN  /\ last_notice' = IF t.reply.r = "ok"
                             THEN kv_delete(last_notice, <<t.kchat, t.user>>)
                             ELSE last_notice
           /\ task' = [task EXCEPT ![p] = Finish(Tr(t, "forget_last"))]
    /\ UNCHANGED <<now, ticks, chat_id, required_channels, static_channels,
                   sub_cache, notice_cache, welcomed_cache, timers, next_id,
                   sent, attempts, fn, store, admins, script>>

\* lines 97-102 and 304-308: the old reminder's delete returned or raised
old_notice_deleted(p) ==
    /\ Resumed(p, {"del_old"})
    /\ LET t == task[p]
       IN  /\ last_notice' = kv_delete(last_notice, <<t.kchat, t.user>>)
           /\ task' = [task EXCEPT ![p] = Finish(Tr(t, "forget_last"))]
    /\ UNCHANGED <<now, ticks, chat_id, required_channels, static_channels,
                   sub_cache, notice_cache, welcomed_cache, timers, next_id,
                   sent, attempts, fn, store, admins, script>>

\* variant: a message.delete() that raised ends the handler
guard_message_deleted_or_stop(p) ==
    /\ Resumed(p, {"del_msg"})
    /\ LET t == task[p]
           key == <<t.chat, t.user>>
       IN  IF t.reply.r # "ok"
           THEN /\ task' = [task EXCEPT ![p] = Finish(t)]
                /\ UNCHANGED notice_cache
           ELSE /\ notice_cache' = contains_data(notice_cache, key)
                /\ task' = [task EXCEPT ![p] =
                      IF contains(notice_cache, key)
                      THEN Finish(Tr(t, "dedup_hit"))
                      ELSE ComposeFrom(Tr([t EXCEPT !.cvals = channels_or_static,
                                                    !.reply = NoReply], "dedup_miss"), 1)]
    /\ UNCHANGED <<now, ticks, chat_id, required_channels, static_channels,
                   sub_cache, last_notice, welcomed_cache, timers, next_id,
                   sent, attempts, fn, store, admins, script>>

\* variant: a suppressed message starts the dedup window anew
guard_message_deleted_extends(p) ==
    /\ Resumed(p, {"del_msg"})
    /\ LET t == task[p]
           key == <<t.chat, t.user>>
       IN  /\ notice_cache' = IF contains(notice_cache, key)
                              THEN set_until(notice_cache, key, NotifyTtl)
                              ELSE contains_data(notice_cache, key)
           /\ task' = [task EXCEPT ![p] =
                 IF contains(notice_cache, key)
                 THEN Finish(Tr(t, "dedup_hit"))
                 ELSE ComposeFrom(Tr([t EXCEPT !.cvals = channels_or_static,
                                               !.reply = NoReply], "dedup_miss"), 1)]
    /\ UNCHANGED <<now, ticks, chat_id, required_channels, static_channels,
                   sub_cache, last_notice, welcomed_cache, timers, next_id,
                   sent, attempts, fn, store, admins, script>>

\* lines 103-118: message.delete() returned or raised; the dedup lookup
guard_message_deleted(p) ==
    /\ Resumed(p, {"del_msg"})
    /\ LET t == task[p]
           key == <<t.chat, t.user>>
       IN  /\ notice_cache' = contains_data(notice_cache, key)
           /\ task' = [task EXCEPT ![p] =
                 IF contains(notice_cache, key)
                 THEN Finish(Tr(t, "dedup_hit"))
                 ELSE ComposeFrom(Tr([t EXCEPT !.cvals = channels_or_static,
                                               !.reply = NoReply], "dedup_miss"), 1)]
    /\ UNCHANGED <<now, ticks, chat_id, required_channels, static_channels,
                   sub_cache, last_notice, welcomed_cache, timers, next_id,
                   sent, attempts, fn, store, admins, script>>

\* lines 119-163 and 215-257: get_chat returns a chat with a username
\* ("username"), one without ("no_username"), or raises ("error"); the text
\* and the buttons built from the answer are left out
compose_chat(p, r) ==
    /\ Awaiting(p, {"get_chat"})
    /\ task' = [task EXCEPT ![p] =
           IF r = "username" THEN ComposeFrom(@, @.idx + 1)
           ELSE [@ EXCEPT !.pc = "create_inv"]]
    /\ UNCHANGED <<now, ticks, chat_id, required_channels, static_channels,
                   sub_cache, notice_cache, last_notice, welcomed_cache, timers,
                   next_id, sent, attempts, fn, store, admins, script>>

\* lines 129-144, 148-163: create_chat_invite_link, then
\* export_chat_invite_link when it gave no link
compose_invite(p, r) ==
    /\ Awaiting(p, {"create_inv", "export_inv"})
    /\ task' = [task EXCEPT ![p] =
           IF r = "link" THEN ComposeFrom(@, @.idx + 1)
           ELSE IF @.pc = "create_inv" THEN [@ EXCEPT !.pc = "export_inv"]
           ELSE ComposeFrom(@, @.idx + 1)]
    /\ UNCHANGED <<now, ticks, chat_id, required_channels, static_channels,
                   sub_cache, notice_cache, last_notice, welcomed_cache, timers,
                   next_id, sent, attempts, fn, store, admins, script>>

\* variant: the entries are written whether the send returned or raised
reminder_sent_marks_always(p) ==
    /\ Resumed(p, {"send"})
    /\ LET t == task[p]
           key == <<t.kchat, t.user>>
       IN  /\ notice_cache' = set_until(notice_cache, key, NotifyTtl)
           /\ last_notice' = kv_set(last_notice, key, t.reply.id, LastNoticeTtl)
           /\ IF t.reply.r = "ok"
              THEN /\ timers' = timers \cup
                          {[chat |-> t.kchat, id |-> t.reply.id, wake |-> now + DeleteDelay]}
                   /\ task' = [task EXCEPT ![p] = Finish(Tr(t, "mark"))]
              ELSE /\ UNCHANGED timers
                   /\ task' = [task EXCEPT ![p] =
                         Finish([t EXCEPT !.exc = (t.kind = "guard")])]
    /\ UNCHANGED <<now, ticks, chat_id, required_channels, static_channels,
                   sub_cache, welcomed_cache, next_id, sent, attempts, fn, store, admins, script>>

\* lines 177-187 and 270-283: the reminder was sent, or the send raised
reminder_sent(p) ==
    /\ Resumed(p, {"send"})
    /\ LET t == task[p]
           key == <<t.kchat, t.user>>
       IN  IF t.reply.r = "ok"
           THEN /\ notice_cache' = set_until(notice_cache, key, NotifyTtl)
                /\ last_notice' = kv_set(last_notice, key, t.reply.id, LastNoticeTtl)
                /\ timers' = timers \cup
                       {[chat |-> t.kchat, id |-> t.reply.id, wake |-> now + DeleteDelay]}
                /\ task' = [task EXCEPT ![p] = Finish(Tr(t, "mark"))]
           ELSE /\ UNCHANGED <<notice_cache, last_notice, timers>>
                /\ task' = [task EXCEPT ![p] =
                      Finish([t EXCEPT !.exc = (t.kind = "guard")])]
    /\ UNCHANGED <<now, ticks, chat_id, required_channels, static_channels,
                   sub_cache, welcomed_cache, next_id, sent, attempts, fn, store, admins, script>>

-----------------------------------------------------------------------------
(* handlers.py: on_leave_required_channel, on_join_required_channel        *)

\* lines 190-211, up to the first awaited call
on_leave_required_channel(p, ev, user_id) ==
    /\ CanStart(p)
    /\ LET t == [IdleTask EXCEPT !.kind = "leave", !.chat = ev.id,
                                 !.uname = ev.username, !.from = "user",
                                 !.user = user_id, !.kchat = chat_id]
           key == <<chat_id, user_id>>
       IN  IF ~is_required_channel(ev.id, ev.username) \/ chat_id = NoneId
           THEN /\ task' = [task EXCEPT ![p] = Finish(t)]
                /\ UNCHANGED notice_cache
           ELSE /\ notice_cache' = contains_data(notice_cache, key)
                /\ task' = [task EXCEPT ![p] =
                      IF contains(notice_cache, key)
                      THEN Finish(Tr(t, "dedup_hit"))
                      ELSE ComposeFrom(Tr([t EXCEPT !.cvals = channels_or_static],
                                          "dedup_miss"), 1)]
    /\ UNCHANGED <<now, ticks, chat_id, required_channels, static_channels,
                   sub_cache, last_notice, welcomed_cache, timers, next_id,
                   sent, attempts, fn, store, admins, script>>

\* lines 286-295, up to the first awaited call
on_join_required_channel(p, ev, user_id) ==
    /\ CanStart(p)
    /\ LET t == [IdleTask EXCEPT !.kind = "join", !.chat = ev.id,
                                 !.uname = ev.username, !.from = "user",
                                 !.user = user_id]
       IN  IF ~is_required_channel(ev.id, ev.username)
           THEN /\ task' = [task EXCEPT ![p] = Finish(t)]
                /\ UNCHANGED <<sub_cache, last_notice>>
           ELSE CallSub(p, t)
    /\ UNCHANGED <<now, ticks, chat_id, required_channels, static_channels,
                   notice_cache, welcomed_cache, timers, next_id, sent,
                   attempts, fn, store, admins, script>>

-----------------------------------------------------------------------------
(* handlers.py: guard_edited_message                                       *)

\* the edited messages the handler is given: one without sender, a bot's,
\* and a user's in the target chat, in its "-100" form and in another chat
EditedMessages ==
    { [chat |-> -5, from |-> "none", user |-> 0, service |-> FALSE],
      [chat |-> -5, from |-> "bot", user |-> 9, service |-> FALSE] }
    \cup { [chat |-> c, from |-> "user", user |-> 1, service |-> FALSE] :
              c \in MsgChats }

\* lines 375-384, up to the first awaited call
guard_edited_message(p, m) ==
    /\ CanStart(p)
    /\ LET t == [IdleTask EXCEPT !.kind = "edited", !.chat = m.chat,
                                 !.kchat = m.chat, !.from = m.from,
                                 !.user = m.user, !.msg = -p]
       IN  IF m.from # "user" \/ chat_id = NoneId \/ ~_is_target_chat(m.chat, chat_id)
           THEN /\ task' = [task EXCEPT ![p] = Finish(t)]
                /\ UNCHANGED <<sub_cache, last_notice>>
           ELSE CallSub(p, t)
    /\ UNCHANGED <<now, ticks, chat_id, required_channels, static_channels,
                   notice_cache, welcomed_cache, timers, next_id, sent,
                   attempts, fn, store, admins, script>>

\* variant: after the delete the handler goes on as guard_message does, to
\* the dedup lookup and the reminder
guard_edited_message_reminds(p) ==
    /\ Resumed(p, {"del_edit"})
    /\ LET t == task[p]
           key == <<t.chat, t.user>>
       IN  /\ notice_cache' = contains_data(notice_cache, key)
           /\ task' = [task EXCEPT ![p] =
                 IF contains(notice_cache, key)
                 THEN Finish(Tr(t, "dedup_hit"))
                 ELSE ComposeFrom(Tr([t EXCEPT !.cvals = channels_or_static,
                                               !.reply = NoReply], "dedup_miss"), 1)]
    /\ UNCHANGED <<now, ticks, chat_id, required_channels, static_channels,
                   sub_cache, last_notice, welcomed_cache, timers, next_id,
                   sent, attempts, fn, store, admins, script>>

\* lines 386-389: message.delete() returned or raised, and the handler ends
guard_edited_message_deleted(p) ==
    /\ Resumed(p, {"del_edit"})
    /\ task' = [task EXCEPT ![p] = Finish(task[p])]
    /\ UNCHANGED <<now, ticks, chat_id, required_channels, static_channels,
                   sub_cache, notice_cache, last_notice, welcomed_cache, timers,
                   next_id, sent, attempts, fn, store, admins, script>>

-----------------------------------------------------------------------------
(* handlers.py: _delete_message_later, run as a detached task              *)

\* variant: delete_message is called without the sleep before it
_delete_message_later_at_once(tm) ==
    /\ tm \in timers
    /\ timers' = timers \ {tm}
    /\ attempts' = attempts \cup {[chat |-> tm.chat, id |-> tm.id, by |-> "later"]}
    /\ UNCHANGED <<now, ticks, chat_id, required_channels, static_channels,
                   sub_cache, notice_cache, last_notice, welcomed_cache, task,
                   next_id, sent, fn, store, admins, script>>

\* lines 54-59: the sleep is over and delete_message is called; whether it
\* returns or raises, the task ends
_delete_message_later(tm) ==
    /\ tm \in timers
    /\ now >= tm.wake
    /\ timers' = timers \ {tm}
    /\ attempts' = attempts \cup {[chat |-> tm.chat, id |-> tm.id, by |-> "later"]}
    /\ UNCHANGED <<now, ticks, chat_id, required_channels, static_channels,
                   sub_cache, notice_cache, last_notice, welcomed_cache, task,
                   next_id, sent, fn, store, admins, script>>

-----------------------------------------------------------------------------
(* The platform answers the call a handler awaits.                         *)

\* message.answer / bot.send_message
PlatformSend(p, ok) ==
    /\ Awaiting(p, {"greet", "send"})
    /\ LET t == task[p]
       IN  IF ok
           THEN /\ sent' = sent \cup
                       {[id |-> next_id, chat |-> t.kchat, user |-> t.user,
                         kind |-> IF t.pc = "greet" THEN "greet" ELSE "reminder",
                         flow |-> t.kind, at |-> now]}
                /\ next_id' = next_id + 1
                /\ task' = [task EXCEPT ![p].reply = [NoReply EXCEPT !.r = "ok", !.id = next_id]]
           ELSE /\ task' = [task EXCEPT ![p].reply = [NoReply EXCEPT !.r = "error"]]
                /\ UNCHANGED <<sent, next_id>>
    /\ UNCHANGED <<now, ticks, chat_id, required_channels, static_channels,
                   sub_cache, notice_cache, last_notice, welcomed_cache, timers,
                   attempts, fn, store, admins, script>>

\* message.delete / bot.delete_message
PlatformDelete(p, ok) ==
    /\ Awaiting(p, {"del_old", "del_msg", "del_edit"})
    /\ LET t == task[p]
       IN  /\ attempts' = attempts \cup
                  {[chat |-> t.kchat, id |-> t.del_id, by |-> t.pc]}
           /\ task' = [task EXCEPT ![p].reply =
                  [NoReply EXCEPT !.r = IF ok THEN "ok" ELSE "error"]]
    /\ UNCHANGED <<now, ticks, chat_id, required_channels, static_channels,
                   sub_cache, notice_cache, last_notice, welcomed_cache, timers,
                   next_id, sent, fn, store, admins, script>>

\* bot.get_chat_member
PlatformGetChatMember(p, reply) ==
    /\ Awaiting(p, {"sub_q"})
    /\ task' = [task EXCEPT ![p].reply = reply]
    /\ UNCHANGED <<now, ticks, chat_id, required_channels, static_channels,
                   sub_cache, notice_cache, last_notice, welcomed_cache, timers,
                   next_id, sent, attempts, fn, store, admins, script>>

-----------------------------------------------------------------------------
(* The administrator's store calls and the clock.                          *)

set_chat_id(c) ==
    /\ chat_id' = c
    /\ UNCHANGED <<now, ticks, required_channels, static_channels, sub_cache,
                   notice_cache, last_notice, welcomed_cache, task, timers,
                   next_id, sent, attempts, fn, store, admins, script>>

add_channel(channel) ==
    /\ required_channels' = add_channel_list(required_channels, channel)
    /\ UNCHANGED <<now, ticks, chat_id, static_channels, sub_cache,
                   notice_cache, last_notice, welcomed_cache, task, timers,
                   next_id, sent, attempts, fn, store, admins, script>>

remove_channel(value) ==
    /\ required_channels' = remove_channel_list(required_channels, value)
    /\ UNCHANGED <<now, ticks, chat_id, static_channels, sub_cache,
                   notice_cache, last_notice, welcomed_cache, task, timers,
                   next_id, sent, attempts, fn, store, admins, script>>

\* time passes
Tick(d) ==
    /\ ticks < MaxTicks
    /\ now' = now + d
    /\ ticks' = ticks + 1
    /\ UNCHANGED <<chat_id, required_channels, static_channels, sub_cache,
                   notice_cache, last_notice, welcomed_cache, task, timers,
                   next_id, sent, attempts, fn, store, admins, script>>

-----------------------------------------------------------------------------
(* storage.py: a ConfigStore call, statement by statement.  The file holds *)
(* chat_id and required_channels; store.file tells whether it is absent, a *)
(* whole JSON document, or a truncated or half-written one.                *)

Ops == 1..MaxOps

\* the ConfigStore objects of main() and of setup_handlers()
Stores == {"main", "handlers"}

\* StoredConfig(chat_id=None, required_channels=[])
DefaultConfig == [chat_id |-> NoneId, required_channels |-> <<>>]

NoOp ==
    [kind |-> "none",          \* the method called
     obj |-> "main",           \* the ConfigStore object it is called on
     arg |-> <<>>,             \* channel / value
     id |-> NoneId,            \* chat_id
     pc |-> "idle",            \* the statement the call has reached
     before |-> DefaultConfig, \* what _load returned
     cfg |-> DefaultConfig,    \* cfg, as the call has changed it
     tmp |-> "none",           \* the temporary file of _save
     ret |-> "none"]           \* the value returned

NoStore ==
    [file |-> "absent",
     lock |-> [s \in Stores |-> 0],
     op |-> [o \in Ops |-> NoOp],
     crashed |-> FALSE]

\* the calls made: the mutating ones come from the admin router and from
\* main(), which hold main()'s object; the handlers only read
StoreCalls ==
    { [NoOp EXCEPT !.kind = "set_chat_id", !.id = c] : c \in {-5, -7} }
    \cup { [NoOp EXCEPT !.kind = "add_channel", !.arg = a] :
              a \in {<<"A", "b">>, <<" ", "A", "b", " ">>, ChanAb, Chan1009, <<" ">>} }
    \cup { [NoOp EXCEPT !.kind = "remove_channel", !.arg = a] :
              a \in {<<"A", "b">>, ChanAb, Chan1009} }
    \cup { [NoOp EXCEPT !.kind = k, !.obj = s] :
              k \in {"get_chat_id", "list_channels"}, s \in Stores }

Mutating(c) == c.kind \in {"set_chat_id", "add_channel", "remove_channel"}

\* _load, lines 30-38, on a file that json.load accepts
FileConfig ==
    IF store.file = "absent" THEN DefaultConfig
    ELSE [chat_id |-> chat_id, required_channels |-> required_channels]

\* variant: the file reads and writes are awaited, so the call is suspended
\* at each of them
store_yields_at_io(o) ==
    LET c == store.op[o]
    IN  \/ (c.pc = "acquire" /\ store.lock[c.obj] # 0)
        \/ c.pc \in {"load", "mkstemp", "dump", "replace"}

\* the call is suspended: "async with self._lock" waits for a lock that is
\* held; _load and _save have no await inside, they run without a break
store_yields(o) ==
    LET c == store.op[o]
    IN  c.pc = "acquire" /\ store.lock[c.obj] # 0

\* the event loop runs call o: the process is up and no other call is in
\* the middle of a run
OnCpu(o) ==
    /\ ~store.crashed
    /\ \A q \in Ops \ {o} : store.op[q].pc \in {"idle", "done"} \/ store_yields(q)

\* lines 67-73: a call is made; a blank channel returns at once
store_call(o, call) ==
    /\ OnCpu(o)
    /\ store.op[o].pc \in {"idle", "done"}
    /\ store' = [store EXCEPT !.op[o] =
           IF call.kind = "add_channel" /\ Strip(call.arg) = <<>>
           THEN [call EXCEPT !.pc = "done", !.ret = "false"]
           ELSE [call EXCEPT !.pc = "acquire"]]
    /\ UNCHANGED <<now, ticks, chat_id, required_channels, static_channels,
                   sub_cache, notice_cache, last_notice, welcomed_cache, task,
                   timers, next_id, sent, attempts, fn, admins, script>>

\* "async with self._lock": the lock of the object the call is made on
store_acquire(o) ==
    /\ OnCpu(o)
    /\ store.op[o].pc = "acquire"
    /\ store.lock[store.op[o].obj] = 0
    /\ store' = [store EXCEPT !.lock[store.op[o].obj] = o, !.op[o].pc = "load"]
    /\ UNCHANGED <<now, ticks, chat_id, required_channels, static_channels,
                   sub_cache, notice_cache, last_notice, welcomed_cache, task,
                   timers, next_id, sent, attempts, fn, admins, script>>

\* variant: a file json.load rejects is read as the empty default
store_load_default_on_error(o) ==
    /\ OnCpu(o)
    /\ store.op[o].pc = "load"
    /\ LET c == store.op[o]
           read == IF store.file = "whole" THEN FileConfig ELSE DefaultConfig
       IN  store' = [store EXCEPT !.op[o] =
               IF Mutating(c)
               THEN [c EXCEPT !.pc = "modify", !.before = read, !.cfg = read]
               ELSE [c EXCEPT !.pc = "release", !.before = read, !.cfg = read,
                              !.ret = "ok"]]
    /\ UNCHANGED <<now, ticks, chat_id, required_channels, static_channels,
                   sub_cache, notice_cache, last_notice, welcomed_cache, task,
                   timers, next_id, sent, attempts, fn, admins, script>>

\* "await self._load()"; get_chat_id and list_channels return what it read;
\* json.load raises on a file that is no whole document
store_load(o) ==
    /\ OnCpu(o)
    /\ store.op[o].pc = "load"
    /\ LET c == store.op[o]
       IN  store' = [store EXCEPT !.op[o] =
               IF store.file \in {"empty", "partial"}
               THEN [c EXCEPT !.pc = "release", !.ret = "error"]
               ELSE IF Mutating(c)
               THEN [c EXCEPT !.pc = "modify", !.before = FileConfig, !.cfg = FileConfig]
               ELSE [c EXCEPT !.pc = "release", !.before = FileConfig,
                              !.cfg = FileConfig, !.ret = "ok"]]
    /\ UNCHANGED <<now, ticks, chat_id, required_channels, static_channels,
                   sub_cache, notice_cache, last_notice, welcomed_cache, task,
                   timers, next_id, sent, attempts, fn, admins, script>>

\* variant: the call builds a new StoredConfig that holds only the field it
\* sets
store_modified_fresh(c) ==
    IF c.kind = "set_chat_id"
    THEN [DefaultConfig EXCEPT !.chat_id = c.id]
    ELSE IF c.kind = "add_channel"
    THEN [DefaultConfig EXCEPT
             !.required_channels = add_channel_list(c.cfg.required_channels, c.arg)]
    ELSE [DefaultConfig EXCEPT
             !.required_channels = remove_channel_list(c.cfg.required_channels, c.arg)]

\* lines 60, 78, 87: cfg after the call has changed it
store_modified(c) ==
    IF c.kind = "set_chat_id"
    THEN [c.cfg EXCEPT !.chat_id = c.id]
    ELSE IF c.kind = "add_channel"
    THEN [c.cfg EXCEPT !.required_channels = add_channel_list(@, c.arg)]
    ELSE [c.cfg EXCEPT !.required_channels = remove_channel_list(@, c.arg)]

\* variant: remove_channel returns True whether or not it found the value
store_returns_found(c) ==
    IF c.kind = "set_chat_id" THEN "ok"
    ELSE IF c.kind = "add_channel"
    THEN (IF add_channel_ret(c.cfg.required_channels, c.arg) THEN "true" ELSE "false")
    ELSE "true"

\* lines 76-80, 86-90: the value the call returns
store_returns(c) ==
    IF c.kind = "set_chat_id" THEN "ok"
    ELSE IF c.kind = "add_channel"
    THEN (IF add_channel_ret(c.cfg.required_channels, c.arg) THEN "true" ELSE "false")
    ELSE (IF remove_channel_ret(c.cfg.required_channels, c.arg) THEN "true" ELSE "false")

\* lines 59-61, 75-80, 85-90: the change of cfg, or the return without a save
store_modify(o) ==
    /\ OnCpu(o)
    /\ store.op[o].pc = "modify"
    /\ LET c == store.op[o]
       IN  store' = [store EXCEPT !.op[o] =
               IF store_returns(c) = "false"
               THEN [c EXCEPT !.pc = "release", !.ret = "false"]
               ELSE [c EXCEPT !.pc = "mkstemp", !.cfg = store_modified(c),
                              !.ret = store_returns(c)]]
    /\ UNCHANGED <<now, ticks, chat_id, required_channels, static_channels,
                   sub_cache, notice_cache, last_notice, welcomed_cache, task,
                   timers, next_id, sent, attempts, fn, admins, script>>

\* variant: the document is written over the config file itself
_save_in_place(o) ==
    /\ OnCpu(o)
    /\ store.op[o].pc \in {"mkstemp", "dump", "replace"}
    /\ LET c == store.op[o]
       IN  IF c.pc = "mkstemp"
           THEN /\ store' = [store EXCEPT !.file = "empty", !.op[o].pc = "dump"]
                /\ UNCHANGED <<chat_id, required_channels>>
           ELSE IF c.pc = "dump"
           THEN /\ store' = [store EXCEPT !.file = "partial", !.op[o].pc = "replace"]
                /\ UNCHANGED <<chat_id, required_channels>>
           ELSE /\ store' = [store EXCEPT !.file = "whole", !.op[o].pc = "release"]
                /\ chat_id' = c.cfg.chat_id
                /\ required_channels' = c.cfg.required_channels
    /\ UNCHANGED <<now, ticks, static_channels, sub_cache, notice_cache,
                   last_notice, welcomed_cache, task, timers, next_id, sent,
                   attempts, fn, admins, script>>

\* _save, lines 40-51: mkstemp creates the temporary file, json.dump fills
\* it write by write, os.replace puts it in the place of the config file
_save(o) ==
    /\ OnCpu(o)
    /\ store.op[o].pc \in {"mkstemp", "dump", "replace"}
    /\ LET c == store.op[o]
       IN  IF c.pc = "mkstemp"
           THEN /\ store' = [store EXCEPT !.op[o].tmp = "empty", !.op[o].pc = "dump"]
                /\ UNCHANGED <<chat_id, required_channels>>
           ELSE IF c.pc = "dump"
           THEN /\ store' = [store EXCEPT
                                !.op[o].tmp = IF c.tmp = "empty" THEN "partial" ELSE "whole",
                                !.op[o].pc = IF c.tmp = "empty" THEN "dump" ELSE "replace"]
                /\ UNCHANGED <<chat_id, required_channels>>
           ELSE /\ store' = [store EXCEPT !.file = "whole", !.op[o].tmp = "none",
                                          !.op[o].pc = "release"]
                /\ chat_id' = c.cfg.chat_id
                /\ required_channels' = c.cfg.required_channels
    /\ UNCHANGED <<now, ticks, static_channels, sub_cache, notice_cache,
                   last_notice, welcomed_cache, task, timers, next_id, sent,
                   attempts, fn, admins, script>>

\* the end of "async with self._lock", and the return: cfg is dropped
store_release(o) ==
    /\ OnCpu(o)
    /\ store.op[o].pc = "release"
    /\ store' = [store EXCEPT !.lock[store.op[o].obj] = 0,
                              !.op[o].pc = "done",
                              !.op[o].before = DefaultConfig,
                              !.op[o].cfg = DefaultConfig]
    /\ UNCHANGED <<now, ticks, chat_id, required_channels, static_channels,
                   sub_cache, notice_cache, last_notice, welcomed_cache, task,
                   timers, next_id, sent, attempts, fn, admins, script>>

\* the lists given as initial_channels
InitialChannels == << <<>>, << <<"A", "b">> >> >>

\* StateService.__init__ and _ensure_loaded, storage.py lines 115-141, on
\* the same path; fn records the arguments, the list by its position in
\* InitialChannels
StateService(initial_chat_id, initial_channels) ==
    /\ ~store.crashed
    /\ \A q \in Ops : store.op[q].pc \in {"idle", "done"} \/ store_yields(q)
    /\ LET initial == [i \in 1..Len(initial_channels) |->
                          _normalize_identifier(initial_channels[i])]
           loaded == store.file = "whole"
       IN  /\ fn' = [op |-> "StateService", a |-> initial_chat_id,
                     b |-> CHOOSE k \in DOMAIN InitialChannels :
                               InitialChannels[k] = initial_channels,
                     res |-> store.file \in {"empty", "partial"}]
           /\ chat_id' = IF loaded THEN chat_id ELSE initial_chat_id
           /\ required_channels' =
                  IF loaded
                  THEN [i \in 1..Len(required_channels) |->
                           _normalize_identifier(required_channels[i])]
                  ELSE initial
           /\ store' = [store EXCEPT !.file = "whole"]
    /\ UNCHANGED <<now, ticks, static_channels, sub_cache, notice_cache,
                   last_notice, welcomed_cache, task, timers, next_id, sent,
                   attempts, admins, script>>

\* the process stops in the middle of a call
Crash ==
    /\ ~store.crashed
    /\ \E o \in Ops : store.op[o].pc \notin {"idle", "done"}
    /\ store' = [store EXCEPT !.crashed = TRUE]
    /\ UNCHANGED <<now, ticks, chat_id, required_channels, static_channels,
                   sub_cache, notice_cache, last_notice, welcomed_cache, task,
                   timers, next_id, sent, attempts, fn, admins, script>>

-----------------------------------------------------------------------------
(* admin.py: the allowlist and on_chat_shared.  A store call runs without  *)
(* a break, so it is one step here.                                        *)

\* variant: the test for a missing sender is left out
is_not_authorized_listed(user_id) ==
    IF admins = {} THEN FALSE
    ELSE user_id \notin admins

\* lines 57-63
is_not_authorized(user_id) ==
    IF user_id = NoneId THEN TRUE
    ELSE IF admins = {} THEN FALSE
    ELSE user_id \notin admins

\* variant: the "select chat" button is handled as "assign target chat"
picker_branch_select_sets(request_id) ==
    IF request_id \in {42, 45} THEN "set_chat_id"
    ELSE IF request_id = 43 THEN "add_channel"
    ELSE IF request_id \in {44, 46} THEN "remove_channel"
    ELSE "none"

\* lines 119, 123, 140, 156, 171: the branch taken for a request_id
picker_branch(request_id) ==
    IF request_id = 42 THEN "set_chat_id"
    ELSE IF request_id \in {43, 45} THEN "add_channel"
    ELSE IF request_id \in {44, 46} THEN "remove_channel"
    ELSE "none"

\* the chats an administrator picks: a channel with the username "Ab" and
\* a group without username
PickedChats == {-1009, -7}

ChatUsername(c) == IF c = -1009 THEN <<"A", "b">> ELSE NoStr

\* chat_shared updates: the sender (NoneId: none), the button's request_id
\* (47: a request_id of no button), the chat picked
SharedEvents ==
    [from : {NoneId, 1, 2}, request_id : {42, 43, 44, 45, 46, 47}, shared : PickedChats]

\* lines 112-125, 140-142, 156-160, 171-175: up to the first awaited
\* platform call
on_chat_shared(p, ev) ==
    /\ CanStart(p)
    /\ LET t == [IdleTask EXCEPT !.kind = "shared", !.chat = ev.from, !.kchat = ev.from,
                                 !.from = IF ev.from = NoneId THEN "none" ELSE "user",
                                 !.user = ev.from, !.request_id = ev.request_id,
                                 !.shared = ev.shared]
           branch == picker_branch(ev.request_id)
           removed == remove_channel_ret(required_channels, Str(ev.shared))
       IN  IF is_not_authorized(ev.from) \/ branch = "none"
           THEN /\ task' = [task EXCEPT ![p] = Finish(t)]
                /\ UNCHANGED <<chat_id, required_channels>>
           ELSE IF branch = "set_chat_id"
           THEN /\ chat_id' = ev.shared
                /\ task' = [task EXCEPT ![p] = Tr([t EXCEPT !.pc = "answer"], "set_chat_id")]
                /\ UNCHANGED required_channels
           ELSE IF branch = "add_channel"
           THEN /\ task' = [task EXCEPT ![p] = [t EXCEPT !.pc = "get_chat"]]
                /\ UNCHANGED <<chat_id, required_channels>>
           ELSE /\ required_channels' = remove_channel_list(required_channels, Str(ev.shared))
                /\ task' = [task EXCEPT ![p] =
                      IF removed
                      THEN Tr([t EXCEPT !.pc = "answer", !.ret = "true"], "remove_channel")
                      ELSE Tr([t EXCEPT !.pc = "get_chat"], "remove_channel")]
                /\ UNCHANGED chat_id
    /\ UNCHANGED <<now, ticks, static_channels, sub_cache, notice_cache, last_notice,
                   welcomed_cache, timers, next_id, sent, attempts, fn, store,
                   admins, script>>

\* lines 126-138, 143-154, 160-169, 175-184: bot.get_chat returned a chat
\* with a username ("username"), one without ("no_username"), or raised
\* ("error"); then the store call that follows
on_chat_shared_chat(p, r) ==
    /\ Awaiting(p, {"get_chat"})
    /\ task[p].kind = "shared"
    /\ r \in (IF ChatUsername(task[p].shared) = NoStr THEN {"no_username", "error"}
                                                      ELSE {"username", "error"})
    /\ LET t == task[p]
           username == <<"@">> \o ChatUsername(t.shared)
           identifier == IF r = "username" THEN username ELSE Str(t.shared)
       IN  IF picker_branch(t.request_id) = "add_channel"
           THEN /\ required_channels' = add_channel_list(required_channels, identifier)
                /\ task' = [task EXCEPT ![p] =
                      Tr([t EXCEPT !.pc = "answer",
                                   !.ret = IF add_channel_ret(required_channels, identifier)
                                           THEN "true" ELSE "false"], "add_channel")]
           ELSE IF r = "username"
           THEN /\ required_channels' = remove_channel_list(required_channels, username)
                /\ task' = [task EXCEPT ![p] =
                      Tr([t EXCEPT !.pc = "answer",
                                   !.ret = IF remove_channel_ret(required_channels, username)
                                           THEN "true" ELSE "false"], "remove_channel")]
           ELSE /\ task' = [task EXCEPT ![p] = [t EXCEPT !.pc = "answer", !.ret = "false"]]
                /\ UNCHANGED required_channels
    /\ UNCHANGED <<now, ticks, chat_id, static_channels, sub_cache, notice_cache,
                   last_notice, welcomed_cache, timers, next_id, sent, attempts,
                   fn, store, admins, script>>

\* message.answer of on_chat_shared: the platform posts the reply or fails
PlatformAnswer(p, ok) ==
    /\ Awaiting(p, {"answer"})
    /\ LET t == task[p]
       IN  IF ok
           THEN /\ sent' = sent \cup
                       {[id |-> next_id, chat |-> t.kchat, user |-> t.user,
                         kind |-> "reply", flow |-> t.kind, at |-> now]}
                /\ next_id' = next_id + 1
                /\ task' = [task EXCEPT ![p].reply = [NoReply EXCEPT !.r = "ok", !.id = next_id]]
           ELSE /\ task' = [task EXCEPT ![p].reply = [NoReply EXCEPT !.r = "error"]]
                /\ UNCHANGED <<sent, next_id>>
    /\ UNCHANGED <<now, ticks, chat_id, required_channels, static_channels,
                   sub_cache, notice_cache, last_notice, welcomed_cache, timers,
                   attempts, fn, store, admins, script>>

\* lines 121, 136-138, 152-154, 166-169, 181-184: message.answer returned,
\* or raised: it is in no try block
on_chat_shared_answered(p) ==
    /\ Resumed(p, {"answer"})
    /\ task' = [task EXCEPT ![p] =
           Finish([@ EXCEPT !.exc = (task[p].reply.r # "ok")])]
    /\ UNCHANGED <<now, ticks, chat_id, required_channels, static_channels,
                   sub_cache, notice_cache, last_notice, welcomed_cache, timers,
                   next_id, sent, attempts, fn, store, admins, script>>

-----------------------------------------------------------------------------
(* Specifications.                                                         *)

NoScript == [hist |-> FALSE, upd |-> <<>>]

NoFn == [op |-> "none", a |-> 0, b |-> 0, res |-> FALSE]

\* a fresh process: no config file yet, empty caches, no update handled
InitProgram ==
    /\ now = 0
    /\ ticks = 0
    /\ chat_id = NoneId
    /\ required_channels = <<>>
    /\ static_channels \in StaticChoices
    /\ sub_cache = EmptyDict
    /\ notice_cache = EmptyDict
    /\ last_notice = EmptyDict
    /\ welcomed_cache = EmptyDict
    /\ task = [p \in Tasks |-> IdleTask]
    /\ timers = {}
    /\ next_id = 1
    /\ sent = {}
    /\ attempts = {}
    /\ store = NoStore

Init == InitProgram /\ fn = NoFn /\ admins = {} /\ script = NoScript

\* the steps of a handler after its first awaited call
Continue ==
    \/ \E p \in Tasks : guard_greeted(p)
    \/ \E p \in Tasks : subscription_reply(p)
    \/ \E p \in Tasks : old_notice_deleted(p)
    \/ \E p \in Tasks : guard_message_deleted(p)
    \/ \E p \in Tasks, r \in {"username", "no_username", "error"} : compose_chat(p, r)
    \/ \E p \in Tasks, r \in {"link", "error"} : compose_invite(p, r)
    \/ \E p \in Tasks : reminder_sent(p)
    \/ \E tm \in timers : _delete_message_later(tm)
    \/ \E p \in Tasks, ok \in BOOLEAN : PlatformSend(p, ok)
    \/ \E p \in Tasks, ok \in BOOLEAN : PlatformDelete(p, ok)
    \/ \E p \in Tasks, reply \in FlowReplies : PlatformGetChatMember(p, reply)

Admin ==
    \/ \E c \in TargetIds : set_chat_id(c)
    \/ \E channel \in FlowChannels : add_channel(channel)

\* messages in group chats
Next ==
    \/ \E p \in Tasks, m \in Messages : Fresh(m.user) /\ guard_message(p, m)
    \/ Continue
    \/ Admin
    \/ \E d \in TickSteps : Tick(d)

Spec == Init /\ [][Next]_vars

\* messages and chat_member updates
NextEvents ==
    \/ \E p \in Tasks, m \in EventMessages : guard_message(p, m)
    \/ \E p \in Tasks, ev \in EventChats : on_leave_required_channel(p, ev, 1)
    \/ \E p \in Tasks, ev \in EventChats : on_join_required_channel(p, ev, 1)
    \/ Continue
    \/ Admin
    \/ \E d \in TickSteps : Tick(d)

SpecEvents == Init /\ [][NextEvents]_vars

\* the subscription check alone, called by on_join_required_channel
NextSub ==
    \/ \E p \in Tasks, ev \in EventChats, u \in Users :
           Fresh(u) /\ on_join_required_channel(p, ev, u)
    \/ \E p \in Tasks : subscription_reply(p)
    \/ \E p \in Tasks, reply \in MemberReplies : PlatformGetChatMember(p, reply)
    \/ \E channel \in ChannelInputs : add_channel(channel)
    \/ \E value \in ChannelInputs : remove_channel(value)
    \/ \E d \in {CacheTtl, DeleteDelay} : Tick(d)

SpecSub == Init /\ [][NextSub]_vars

LiveMessages == { m \in Messages : m.user = 1 /\ ~m.service /\ m.chat = -5 }

\* one user's messages and edited messages in group chats
NextEdited ==
    \/ \E p \in Tasks, m \in EditedMessages : guard_edited_message(p, m)
    \/ \E p \in Tasks : guard_edited_message_deleted(p)
    \/ \E p \in Tasks, m \in LiveMessages : guard_message(p, m)
    \/ Continue
    \/ Admin
    \/ \E d \in TickSteps : Tick(d)

SpecEdited == Init /\ [][NextEdited]_vars

\* every handler has returned and polling goes on: the slots are free for
\* the updates that follow, as long as few messages have been sent
handlers_returned ==
    /\ \A p \in Tasks : task[p].pc = "done"
    /\ next_id <= MaxSent
    /\ task' = [p \in Tasks |-> IdleTask]
    /\ UNCHANGED <<now, ticks, chat_id, required_channels, static_channels,
                   sub_cache, notice_cache, last_notice, welcomed_cache, timers,
                   next_id, sent, attempts, fn, store, admins, script>>

\* one user's messages and the chat_member updates of the user leaving a
\* channel, over more updates than there are slots
NextStale ==
    \/ \E p \in Tasks, m \in LiveMessages : guard_message(p, m)
    \/ \E p \in Tasks, ev \in EventChats :
           ev.id = IntOf(Chan1009) /\ on_leave_required_channel(p, ev, 1)
    \/ \E p \in Tasks : guard_greeted(p)
    \/ \E p \in Tasks : subscription_reply(p)
    \/ \E p \in Tasks : old_notice_deleted(p)
    \/ \E p \in Tasks : guard_message_deleted(p)
    \/ \E p \in Tasks : compose_chat(p, "username")
    \/ \E p \in Tasks : reminder_sent(p)
    \/ \E p \in Tasks, ok \in BOOLEAN : PlatformSend(p, ok)
    \/ \E p \in Tasks : PlatformDelete(p, TRUE)
    \/ \E p \in Tasks, reply \in {r \in FlowReplies : r.r # "forbidden"} :
           PlatformGetChatMember(p, reply)
    \/ Admin
    \/ \E d \in {CacheTtl, DeleteDelay} : Tick(d)
    \/ handlers_returned

SpecStale == Init /\ [][NextStale]_vars

\* asyncio.sleep(delay) of a pending _delete_message_later: the clock reaches
\* the instant the sleep ends
Wake ==
    /\ \E tm \in timers : now < tm.wake /\ now' = tm.wake
    /\ UNCHANGED <<ticks, chat_id, required_channels, static_channels, sub_cache,
                   notice_cache, last_notice, welcomed_cache, task, timers,
                   next_id, sent, attempts, fn, store, admins, script>>

\* one user's messages in the target chat, with the sleeps of the detached
\* delete tasks running out
NextLive ==
    \/ \E p \in Tasks, m \in LiveMessages : guard_message(p, m)
    \/ Continue
    \/ Admin
    \/ Wake

\* the event loop resumes a coroutine whose awaited call has returned, runs
\* a detached task whose sleep is over, and the clock does not stop
Fairness ==
    /\ \A p \in Tasks : WF_vars(reminder_sent(p))
    /\ WF_vars(\E tm \in timers : _delete_message_later(tm))
    /\ WF_vars(Wake)

SpecLive == Init /\ [][NextLive]_vars /\ Fairness

\* the store alone: calls made one after another or while another waits
NextStore ==
    \/ \E o \in Ops, call \in StoreCalls : store_call(o, call)
    \/ \E o \in Ops : store_acquire(o)
    \/ \E o \in Ops : store_load(o)
    \/ \E o \in Ops : store_modify(o)
    \/ \E o \in Ops : _save(o)
    \/ \E o \in Ops : store_release(o)
    \/ Crash

InitStore == Init /\ static_channels = <<>>

SpecStore == InitStore /\ [][NextStore]_vars

\* ADMIN_USER_IDS: empty, or user 1
AdminChoices == {{}, {1}}

InitAdmin ==
    /\ InitProgram
    /\ static_channels = <<>>
    /\ fn = NoFn
    /\ script = NoScript
    /\ admins \in AdminChoices

\* the chat-picker updates of the admin router
NextAdmin ==
    \/ \E p \in Tasks, ev \in SharedEvents : on_chat_shared(p, ev)
    \/ \E p \in Tasks, r \in {"username", "no_username", "error"} : on_chat_shared_chat(p, r)
    \/ \E p \in Tasks, ok \in BOOLEAN : PlatformAnswer(p, ok)
    \/ \E p \in Tasks : on_chat_shared_answered(p)

SpecAdmin == InitAdmin /\ [][NextAdmin]_vars

\* a pick made after the handler of the pick before it has ended
NextPicker ==
    \/ \E p \in Tasks, ev \in SharedEvents :
           /\ \A q \in Tasks : task[q].pc \in {"idle", "done"}
           /\ on_chat_shared(p, ev)
    \/ \E p \in Tasks, r \in {"username", "no_username", "error"} : on_chat_shared_chat(p, r)
    \/ \E p \in Tasks, ok \in BOOLEAN : PlatformAnswer(p, ok)
    \/ \E p \in Tasks : on_chat_shared_answered(p)

SpecPicker == InitAdmin /\ [][NextPicker]_vars

\* two users' messages, each handled by its own guard_message coroutine
Pair == {1, 2}

\* an update and the platform's answers to the calls its handler awaits
Scripted ==
    [chat : {-5, -1005}, greet : BOOLEAN, member : FlowReplies,
     delete : BOOLEAN, send : BOOLEAN]

\* what the handlers share, before the two messages: a fresh process, or
\* one that has greeted user 1, deleted a message of theirs and reminded
\* them DeleteDelay seconds ago, both bot messages since removed
Shared(hist) ==
    IF ~hist
    THEN [now |-> 0, welcomed |-> EmptyDict, sub |-> EmptyDict, notice |-> EmptyDict,
          last |-> EmptyDict, sent |-> {}, attempts |-> {}, next_id |-> 1]
    ELSE [now |-> DeleteDelay,
          welcomed |-> DictPut(EmptyDict, <<-5, 1>>, WelcomeTtl),
          sub |-> EmptyDict,
          notice |-> DictPut(EmptyDict, <<-5, 1>>, NotifyTtl),
          last |-> DictPut(EmptyDict, <<-5, 1>>, [exp |-> LastNoticeTtl, value |-> 2]),
          sent |-> {[id |-> 1, chat |-> -5, user |-> 1, kind |-> "greet",
                     flow |-> "guard", at |-> 0],
                    [id |-> 2, chat |-> -5, user |-> 1, kind |-> "reminder",
                     flow |-> "guard", at |-> 0]},
          attempts |-> {[chat |-> -5, id |-> -9, by |-> "del_msg"],
                        [chat |-> -5, id |-> 1, by |-> "later"],
                        [chat |-> -5, id |-> 2, by |-> "later"]},
          next_id |-> 3]

InitPair ==
    /\ script \in [hist : BOOLEAN,
                   upd : { u \in [Pair -> Scripted] : u[1].chat = -5 }]
    /\ now = Shared(script.hist).now
    /\ ticks = 0
    /\ chat_id = -5
    /\ required_channels = <<>>
    /\ static_channels = <<ChanAb>>
    /\ sub_cache = Shared(script.hist).sub
    /\ notice_cache = Shared(script.hist).notice
    /\ last_notice = Shared(script.hist).last
    /\ welcomed_cache = Shared(script.hist).welcomed
    /\ task = [p \in Tasks |-> IdleTask]
    /\ timers = {}
    /\ next_id = Shared(script.hist).next_id
    /\ sent = Shared(script.hist).sent
    /\ attempts = Shared(script.hist).attempts
    /\ store = NoStore
    /\ fn = NoFn
    /\ admins = {}

\* message p of the pair: user p writes in the target chat
PairMessage(p) ==
    [chat |-> script.upd[p].chat, from |-> "user", user |-> p, service |-> FALSE]

\* the two handlers, resumed in any order as their awaited calls return
NextPair ==
    \/ \E p \in Pair : guard_message(p, PairMessage(p))
    \/ \E p \in Pair : guard_greeted(p)
    \/ \E p \in Pair : subscription_reply(p)
    \/ \E p \in Pair : old_notice_deleted(p)
    \/ \E p \in Pair : guard_message_deleted(p)
    \/ \E p \in Pair : reminder_sent(p)
    \/ \E p \in Pair : PlatformSend(p, IF task[p].pc = "greet" THEN script.upd[p].greet
                                                             ELSE script.upd[p].send)
    \/ \E p \in Pair : PlatformDelete(p, script.upd[p].delete)
    \/ \E p \in Pair : PlatformGetChatMember(p, script.upd[p].member)

SpecPair == InitPair /\ [][NextPair]_vars

\* guard_message, lines 62-187, run from start to end with no other
\* coroutine in between, on the shared state S and the answers sc
guard_alone(S, p, m, sc) ==
    LET key == <<m.chat, m.user>>
        greet == ~contains(S.welcomed, key)
        S1 == IF greet /\ sc.greet
              THEN [S EXCEPT !.welcomed = set_until(contains_data(@, key), key, WelcomeTtl),
                             !.sent = @ \cup {[id |-> S.next_id, chat |-> m.chat,
                                               user |-> m.user, kind |-> "greet",
                                               flow |-> "guard", at |-> now]},
                             !.next_id = @ + 1]
              ELSE [S EXCEPT !.welcomed = contains_data(@, key)]
        cached == contains(S1.sub, m.user)
        subscribed ==
            \/ cached
            \/ channels_or_static = <<>>
            \/ (~Refused(sc.member) /\ status_ok(sc.member))
        S2 == IF cached \/ ~subscribed
              THEN [S1 EXCEPT !.sub = contains_data(@, m.user)]
              ELSE [S1 EXCEPT !.sub = set_until(contains_data(@, m.user), m.user, CacheTtl)]
        msg_id == kv_get(S2.last, key)
    IN  IF guard_returns_early(m) THEN S
        ELSE IF subscribed
        THEN IF msg_id = NoneId
             THEN [S2 EXCEPT !.last = kv_get_data(@, key)]
             ELSE [S2 EXCEPT !.last = kv_delete(kv_get_data(@, key), key),
                             !.attempts = @ \cup {[chat |-> m.chat, id |-> msg_id,
                                                   by |-> "del_old"]}]
        ELSE LET S3 == [S2 EXCEPT !.notice = contains_data(@, key),
                                  !.attempts = @ \cup {[chat |-> m.chat, id |-> -p,
                                                        by |-> "del_msg"]}]
             IN  IF contains(S2.notice, key) \/ ~sc.send THEN S3
                 ELSE [S3 EXCEPT !.notice = set_until(@, key, NotifyTtl),
                                 !.last = kv_set(@, key, S3.next_id, LastNoticeTtl),
                                 !.sent = @ \cup {[id |-> S3.next_id, chat |-> m.chat,
                                                   user |-> m.user, kind |-> "reminder",
                                                   flow |-> "guard", at |-> now]},
                                 !.next_id = @ + 1]

-----------------------------------------------------------------------------
(* cache.py: the two caches alone, their methods called as time passes.    *)
(* fn holds the last call, its arguments and the value it returned.        *)

CacheKeys == {1, 2}

ClockSteps == {5, 6}

\* time.monotonic() moves on
cache_clock(d) ==
    /\ now + d <= MaxNow
    /\ now' = now + d
    /\ fn' = [op |-> "clock", a |-> 0, b |-> d, res |-> FALSE]
    /\ UNCHANGED <<ticks, chat_id, required_channels, static_channels, sub_cache,
                   notice_cache, last_notice, welcomed_cache, task, timers,
                   next_id, sent, attempts, store, admins, script>>

\* TTLMemoryCache.set_until(key, ttl_seconds)
cache_set_until(key, ttl_seconds) ==
    /\ notice_cache' = set_until(notice_cache, key, ttl_seconds)
    /\ fn' = [op |-> "set_until", a |-> key, b |-> ttl_seconds, res |-> FALSE]
    /\ UNCHANGED <<now, ticks, chat_id, required_channels, static_channels,
                   sub_cache, last_notice, welcomed_cache, task, timers,
                   next_id, sent, attempts, store, admins, script>>

\* TTLMemoryCache.contains(key); b is the expiry it read (0: none)
cache_contains(key) ==
    /\ notice_cache' = contains_data(notice_cache, key)
    /\ fn' = [op |-> "contains", a |-> key,
              b |-> IF key \in DOMAIN notice_cache THEN notice_cache[key] ELSE 0,
              res |-> contains(notice_cache, key)]
    /\ UNCHANGED <<now, ticks, chat_id, required_channels, static_channels,
                   sub_cache, last_notice, welcomed_cache, task, timers,
                   next_id, sent, attempts, store, admins, script>>

\* TTLKVCache.set(key, value, ttl_seconds)
cache_kv_set(key, value, ttl_seconds) ==
    /\ last_notice' = kv_set(last_notice, key, value, ttl_seconds)
    /\ fn' = [op |-> "set", a |-> key, b |-> ttl_seconds, res |-> FALSE]
    /\ UNCHANGED <<now, ticks, chat_id, required_channels, static_channels,
                   sub_cache, notice_cache, welcomed_cache, task, timers,
                   next_id, sent, attempts, store, admins, script>>

\* TTLKVCache.get(key): res tells whether a value was returned
cache_kv_get(key) ==
    /\ last_notice' = kv_get_data(last_notice, key)
    /\ fn' = [op |-> "get", a |-> key, b |-> kv_get(last_notice, key),
              res |-> kv_get(last_notice, key) # NoneId]
    /\ UNCHANGED <<now, ticks, chat_id, required_channels, static_channels,
                   sub_cache, notice_cache, welcomed_cache, task, timers,
                   next_id, sent, attempts, store, admins, script>>

NextCache ==
    \/ \E d \in ClockSteps : cache_clock(d)
    \/ \E key \in CacheKeys : cache_set_until(key, NotifyTtl)
    \/ \E key \in CacheKeys : cache_contains(key)
    \/ cache_kv_set(1, 7, NotifyTtl)
    \/ cache_kv_get(1)

InitCache == Init /\ static_channels = <<>>

SpecCache == InitCache /\ [][NextCache]_vars

-----------------------------------------------------------------------------
(* The store on a path where there is no file, or a file cut short.        *)

FileCalls ==
    { c \in StoreCalls :
        \/ c.kind = "set_chat_id" /\ c.id = -5
        \/ c.kind = "add_channel" /\ c.arg \in {<<"A", "b">>, <<" ">>}
        \/ c.kind = "remove_channel" /\ c.arg = ChanAb
        \/ c.kind = "get_chat_id" /\ c.obj = "main"
        \/ c.kind = "list_channels" /\ c.obj = "handlers" }

\* a fresh process, the path empty or holding a document cut short
InitFile ==
    /\ now = 0
    /\ ticks = 0
    /\ chat_id = NoneId
    /\ required_channels = <<>>
    /\ sub_cache = EmptyDict
    /\ notice_cache = EmptyDict
    /\ last_notice = EmptyDict
    /\ welcomed_cache = EmptyDict
    /\ task = [p \in Tasks |-> IdleTask]
    /\ timers = {}
    /\ next_id = 1
    /\ sent = {}
    /\ attempts = {}
    /\ static_channels = <<>>
    /\ fn = NoFn
    /\ admins = {}
    /\ script = NoScript
    /\ store \in { [NoStore EXCEPT !.file = f] : f \in {"absent", "partial"} }

NextFile ==
    \/ \E o \in Ops, call \in FileCalls : store_call(o, call)
    \/ \E o \in Ops : store_acquire(o)
    \/ \E o \in Ops : store_load(o)
    \/ \E o \in Ops : store_modify(o)
    \/ \E o \in Ops : _save(o)
    \/ \E o \in Ops : store_release(o)
    \/ \E c \in {NoneId, -7}, k \in DOMAIN InitialChannels :
           StateService(c, InitialChannels[k])

SpecFile == InitFile /\ [][NextFile]_vars

-----------------------------------------------------------------------------
(* The normalizers as functions of the identifier.                         *)

IdentChars == {" ", "@", "-", "1", "a", TMe}

Identifiers == UNION { [1..n -> IdentChars] : n \in 0..MaxLen }

InitNorm ==
    /\ InitProgram
    /\ admins = {}
    /\ script = NoScript
    /\ fn \in { [op |-> "input", a |-> v, b |-> <<>>, res |-> FALSE] : v \in Identifiers }

\* one of the normalizers is applied to the identifier; add_channel and
\* _parse_required_channels drop a blank one before normalizing
ApplyNormalizer(name) ==
    /\ fn.op = "input"
    /\ name = "_normalize_identifier" \/ Strip(fn.a) # <<>>
    /\ fn' = [fn EXCEPT !.op = name,
                        !.b = IF name = "_normalize_identifier" THEN _normalize_identifier(fn.a)
                              ELSE IF name = "add_channel" THEN add_channel_norm(fn.a)
                              ELSE _parse_required_channels_item(fn.a)]
    /\ UNCHANGED <<now, ticks, chat_id, required_channels, static_channels,
                   sub_cache, notice_cache, last_notice, welcomed_cache, task,
                   timers, next_id, sent, attempts, store, admins, script>>

NextNorm ==
    \E name \in {"_normalize_identifier", "add_channel", "_parse_required_channels"} :
        ApplyNormalizer(name)

SpecNorm == InitNorm /\ [][NextNorm]_vars

-----------------------------------------------------------------------------
(* _is_target_chat as a function of its two arguments.                     *)

AliasIds == {5, -5, 1005, -1005, -1001005, 100, 100100, 7, -7, 15, 10015}

InitAlias ==
    /\ InitProgram
    /\ admins = {}
    /\ script = NoScript
    /\ fn \in { [op |-> "input", a |-> x, b |-> y, res |-> FALSE] :
                  x \in AliasIds, y \in AliasIds }

ApplyIsTargetChat ==
    /\ fn.op = "input"
    /\ fn' = [fn EXCEPT !.op = "_is_target_chat", !.res = _is_target_chat(fn.a, fn.b)]
    /\ UNCHANGED <<now, ticks, chat_id, required_channels, static_channels,
                   sub_cache, notice_cache, last_notice, welcomed_cache, task,
                   timers, next_id, sent, attempts, store, admins, script>>

SpecAlias == InitAlias /\ [][ApplyIsTargetChat]_vars

-----------------------------------------------------------------------------
(* Claims.                                                                 *)

Reminders == { m \in sent : m.kind = "reminder" }

\* C1: for every (chat, user), however the guard_message handlers of that
\* user's offending messages interleave at their awaited platform calls, no
\* two reminders are sent less than notify_ttl_seconds apart.
C1_OneReminderPerWindow ==
    \A m1 \in Reminders, m2 \in Reminders :
        (m1.id # m2.id /\ m1.chat = m2.chat /\ m1.user = m2.user /\ m1.at <= m2.at)
            => m2.at - m1.at >= NotifyTtl

\* the statuses the claim counts as membership
C2_Member(reply) ==
    \/ reply.r \in {"creator", "administrator", "member"}
    \/ (reply.r = "restricted" /\ reply.is_member = TRUE)

\* C2: when a channel, walked in list order, answers with anything but a
\* membership status (or the platform refuses the query), the check returns
\* false on that answer, queries no further channel and leaves the
\* subscription cache as it is.
C2_FailClosed ==
    [][\A p \in Tasks :
        /\ (Resumed(p, {"sub_q"}) /\ ~C2_Member(task[p].reply) /\ task'[p] # task[p])
               => /\ task'[p].ret = "false"
                  /\ task'[p].nq = task[p].nq
                  /\ task'[p].pc # "sub_q"
                  /\ sub_cache' = sub_cache
        /\ (task'[p].pc = "sub_q")
               => /\ task'[p].nq = task'[p].idx
                  /\ task'[p].idx <= Len(task'[p].chans)
                  /\ task'[p].ret = "none"
        /\ (task[p].ret = "false")
               => (task'[p].ret = "false" /\ task'[p].nq = task[p].nq)
      ]_vars

\* a check that stopped at the first of two channels
C2_Witness ==
    \E p \in Tasks : task[p].ret = "false" /\ task[p].nq = 1 /\ task[p].nch = 2

\* C3: when the last channel too reports membership the check returns true
\* and caches the user until now + ttl_seconds; a call made while that entry
\* has not expired returns true with no query and without reading the list.
C3_PositiveCached ==
    [][\A p \in Tasks :
        /\ (Resumed(p, {"sub_q"}) /\ C2_Member(task[p].reply)
                /\ task[p].idx = Len(task[p].chans) /\ task'[p] # task[p])
               => /\ task'[p].ret = "true"
                  /\ task[p].user \in DOMAIN sub_cache'
                  /\ sub_cache'[task[p].user] = now + CacheTtl
        /\ (task[p].pc = "idle" /\ task'[p].trace # <<>>
                /\ task'[p].user \in DOMAIN sub_cache
                /\ now <= sub_cache[task'[p].user])
               => /\ task'[p].ret = "true"
                  /\ task'[p].nq = 0
                  /\ task'[p].listed = FALSE
                  /\ task'[p].pc # "sub_q"
                  /\ sub_cache' = sub_cache
      ]_vars

\* a call answered from the cache alone, the clock at the entry's expiry
C3_Witness ==
    \E p \in Tasks :
        /\ task[p].ret = "true" /\ task[p].nq = 0 /\ ~task[p].listed
        /\ task[p].user \in DOMAIN sub_cache
        /\ sub_cache[task[p].user] = now
        /\ now > 0

\* the positions of the given calls in a handler's trace
TagAt(t, tags) == { i \in DOMAIN t.trace : t.trace[i] \in tags }

\* C4: a guard_message whose sender is not subscribed calls message.delete()
\* before it looks at the dedup cache; the lookup follows whether the delete
\* returned or raised, and a live dedup entry only suppresses the reminder.
C4_DeleteBeforeDedup ==
    [][\A p \in Tasks :
        LET t == task'[p]
            key == <<task[p].chat, task[p].user>>
            live == key \in DOMAIN notice_cache /\ now <= notice_cache[key]
        IN  /\ (t.kind = "guard" /\ t.ret = "false")
                   => /\ TagAt(t, {"del_msg"}) # {}
                      /\ \A i \in TagAt(t, {"dedup_hit", "dedup_miss", "send", "mark"}),
                            j \in TagAt(t, {"del_msg"}) : j < i
                      /\ (TagAt(t, {"dedup_hit", "dedup_miss"}) # {})
                             => [chat |-> t.chat, id |-> t.msg, by |-> "del_msg"] \in attempts'
            /\ (task[p].kind = "guard" /\ Resumed(p, {"del_msg"}) /\ t # task[p])
                   => /\ TagAt(t, {"dedup_hit", "dedup_miss"}) # {}
                      /\ IF live
                         THEN t.pc = "done" /\ TagAt(t, {"send"}) = {}
                         ELSE t.pc \in {"get_chat", "send"}
      ]_vars

\* an offending message deleted although its reminder was suppressed
C4_Witness ==
    \E p \in Tasks :
        /\ task[p].kind = "guard" /\ task[p].ret = "false" /\ task[p].pc = "done"
        /\ TagAt(task[p], {"dedup_hit"}) # {}
        /\ [chat |-> task[p].chat, id |-> task[p].msg, by |-> "del_msg"] \in attempts

\* C5: a guard_message whose sender is subscribed neither deletes the
\* message nor sends a reminder nor touches the dedup cache; when a reminder
\* is tracked for (chat, user) it makes one delete attempt for it and removes
\* the tracking entry whether the delete returned or raised.
C5_SubscribedSender ==
    [][\A p \in Tasks :
        LET t == task'[p]
            key == <<t.chat, t.user>>
            tracked == /\ key \in DOMAIN last_notice
                       /\ now <= last_notice[key].exp
                       /\ last_notice[key].value # NoneId
        IN  /\ (t.kind = "guard" /\ t.ret = "true")
                   => /\ TagAt(t, {"del_msg", "dedup_hit", "dedup_miss", "send", "mark"}) = {}
                      /\ \A a \in attempts' : a.id # t.msg
            /\ (task[p].kind = "guard" /\ task[p].ret = "true" /\ t # task[p])
                   => (notice_cache' = notice_cache /\ sent' = sent /\ timers' = timers)
            /\ (task[p].ret # "true" /\ t.kind = "guard" /\ t.ret = "true")
                   => IF tracked
                      THEN /\ t.pc = "del_old"
                           /\ t.del_id = last_notice[key].value
                           /\ t.kchat = t.chat
                      ELSE t.pc = "done"
            /\ (task[p].kind = "guard" /\ Resumed(p, {"del_old"}) /\ t # task[p])
                   => /\ key \notin DOMAIN last_notice'
                      /\ [chat |-> t.chat, id |-> task[p].del_id, by |-> "del_old"] \in attempts
                      /\ t.pc = "done"
      ]_vars

\* a subscribed sender's earlier reminder was deleted and forgotten
C5_Witness ==
    \E p \in Tasks :
        /\ task[p].kind = "guard" /\ task[p].ret = "true" /\ task[p].pc = "done"
        /\ TagAt(task[p], {"forget_last"}) # {}
        /\ <<task[p].chat, task[p].user>> \notin DOMAIN last_notice

RECURSIVE Shift(_)
\* 10 to the number of decimal digits of n
Shift(n) == IF n < 10 THEN 10 ELSE 10 * Shift(n \div 10)

\* |long| is the digits "100" followed by the digits of |short|
AliasPair(short, long) == Abs(long) = 100 * Shift(Abs(short)) + Abs(short)

\* the two ids name one chat
SameChat(a, b) == a = b \/ AliasPair(a, b) \/ AliasPair(b, a)

\* C6: guard_message does nothing at all when no target chat is stored or
\* when the message's chat does not alias-match the stored target.
C6_NoTargetNoAction ==
    [][\A p \in Tasks :
        (/\ task[p].pc = "idle"
         /\ task'[p].kind = "guard"
         /\ (chat_id = NoneId \/ ~SameChat(task'[p].chat, chat_id)))
            => /\ task'[p].pc = "done"
               /\ task'[p].trace = <<>>
               /\ UNCHANGED <<sub_cache, notice_cache, last_notice, welcomed_cache,
                              timers, next_id, sent, attempts>>
      ]_vars

\* a user's message in another chat was let through while a target is set
C6_Witness ==
    \E p \in Tasks :
        /\ task[p].kind = "guard" /\ task[p].pc = "done"
        /\ task[p].from = "user" /\ ~task[p].service
        /\ chat_id # NoneId /\ ~SameChat(task[p].chat, chat_id)
        /\ task[p].trace = <<>>

\* C8: _is_target_chat returns true exactly when the two ids are equal or
\* one is the "100"-prefixed form of the other, whichever argument holds the
\* long form, also when |short| itself begins with "100".
C8_AliasSymmetric ==
    fn.op = "_is_target_chat" => (fn.res <=> SameChat(fn.a, fn.b))

\* the message ids the platform can hand out
MessageIds == 1..(2 * MaxTasks)

\* the auto-delete attempt made for reminder m
LaterAttempt(m) == [chat |-> m.chat, id |-> m.id, by |-> "later"]

C7_Marked ==
    [][\A p \in Tasks :
        (Resumed(p, {"send"}) /\ task[p].reply.r = "ok" /\ task'[p] # task[p])
            => LET t == task[p]
                   key == <<t.kchat, t.user>>
               IN  /\ key \in DOMAIN notice_cache'
                   /\ notice_cache'[key] = now + NotifyTtl
                   /\ key \in DOMAIN last_notice'
                   /\ last_notice'[key] = [exp |-> now + 60 * 60, value |-> t.reply.id]
                   /\ [chat |-> t.kchat, id |-> t.reply.id, wake |-> now + 20] \in timers'
      ]_vars

C7_NotBefore ==
    [](/\ \A tm \in timers :
              [chat |-> tm.chat, id |-> tm.id, by |-> "later"] \notin attempts
       /\ \A m \in Reminders : LaterAttempt(m) \in attempts => now >= m.at + 20)

C7_AutoDeleted ==
    \A i \in MessageIds :
        (\E m \in Reminders : m.id = i)
            ~> (\E m \in Reminders : m.id = i /\ LaterAttempt(m) \in attempts)

C9_JoinCleansUp ==
    [][\A p \in Tasks :
        LET t == task'[p]
            recorded == { k \in DOMAIN last_notice :
                            /\ k[2] = t.user
                            /\ SameChat(k[1], chat_id)
                            /\ now <= last_notice[k].exp }
        IN  /\ (task[p].ret # "true" /\ t.kind = "join" /\ t.ret = "true"
                    /\ chat_id # NoneId)
                   => IF recorded # {}
                      THEN /\ t.pc = "del_old"
                           /\ \E k \in recorded : t.del_id = last_notice[k].value
                      ELSE t.pc = "done"
            /\ (task[p].kind = "join" /\ Resumed(p, {"del_old"}) /\ t # task[p])
                   => /\ [chat |-> chat_id, id |-> task[p].del_id, by |-> "del_old"] \in attempts
                      /\ \A k \in DOMAIN last_notice' :
                             ~(k[2] = t.user /\ SameChat(k[1], chat_id))
      ]_vars

\* the event's chat is one of the required channels, by @username without
\* regard to case, by numeric id, or by the other form of that id
RequiredByAlias(t) ==
    \E i \in 1..Len(channels_or_static) :
        LET c == channels_or_static[i]
        IN  IF IsNumericIdent(c)
            THEN SameChat(t.chat, IntOf(c))
            ELSE t.uname # NoStr /\ Lower(c) = <<"@">> \o Lower(t.uname)

\* C10: a departure from a chat that matches a required channel by alias,
\* with a target chat set and no live dedup entry for (target chat, user),
\* makes the handler send a reminder to the target chat and mark it as the
\* message flow does; otherwise the handler sends nothing.
C10_LeaveReminds ==
    [][\A p \in Tasks :
        LET t == task'[p]
            key == <<chat_id, t.user>>
            live == key \in DOMAIN notice_cache /\ now <= notice_cache[key]
        IN  (task[p].pc = "idle" /\ t.kind = "leave")
                => IF RequiredByAlias(t) /\ chat_id # NoneId /\ ~live
                   THEN t.pc \in {"get_chat", "send"} /\ t.kchat = chat_id
                   ELSE t.pc = "done" /\ TagAt(t, {"send"}) = {}
      ]_vars

\* the identifier add_channel is to store for c
NormalForm(c) ==
    LET n == Strip(c)
    IN  IF IsNumericIdent(n) \/ StartsWith(n, <<"@">>) THEN n ELSE <<"@">> \o n

InList(x, l) == \E i \in 1..Len(l) : l[i] = x

\* a call returns: the step that ends "async with self._lock"
Returns(o) == store.op[o].pc = "release" /\ store'.op[o].pc = "done"

\* C11: required_channels never holds two entries with one normalized
\* identifier; add_channel(c) returns false and leaves the file as it is
\* exactly when c is blank or its normalized form is stored, else it appends
\* the normalized form at the end and returns true.
C11_AddChannelNoDuplicates ==
    [][/\ \A i, j \in 1..Len(required_channels') :
              i # j => NormalForm(required_channels'[i]) # NormalForm(required_channels'[j])
       /\ \A o \in Ops :
            LET c == store.op[o]
                d == store'.op[o]
                stored == InList(NormalForm(c.arg), c.before.required_channels)
            IN  /\ (Returns(o) /\ c.kind = "add_channel")
                       => /\ c.ret = "false" <=> stored
                          /\ IF stored
                             THEN FileConfig' = c.before
                             ELSE FileConfig' =
                                    [c.before EXCEPT !.required_channels =
                                        Append(@, NormalForm(c.arg))]
                /\ (c.pc \in {"idle", "done"} /\ d # c /\ d.kind = "add_channel"
                        /\ Strip(d.arg) = <<>>)
                       => (d.pc = "done" /\ d.ret = "false" /\ FileConfig' = FileConfig)
      ]_vars

\* add_channel("Ab") with "@Ab" stored returned false
C11_Witness ==
    \E o \in Ops :
        /\ store.op[o].kind = "add_channel" /\ store.op[o].pc = "done"
        /\ store.op[o].arg = <<"A", "b">> /\ store.op[o].ret = "false"
        /\ InList(ChanAb, required_channels)

\* C12: remove_channel(v) removes one entry and returns true only when v is
\* literally a stored entry; otherwise, also when only the normalized form of
\* v is stored, it returns false and leaves chat_id and required_channels.
C12_RemoveExactOnly ==
    [][\A o \in Ops :
        LET c == store.op[o]
            l == c.before.required_channels
            stored == InList(c.arg, l)
        IN  (Returns(o) /\ c.kind = "remove_channel")
                => /\ c.ret = "true" <=> stored
                   /\ IF stored
                      THEN /\ chat_id' = c.before.chat_id
                           /\ \E i \in 1..Len(l) :
                                  /\ l[i] = c.arg
                                  /\ required_channels' =
                                        SubSeq(l, 1, i - 1) \o SubSeq(l, i + 1, Len(l))
                      ELSE FileConfig' = c.before
      ]_vars

\* remove_channel("Ab") returned false and "@Ab" is still stored
C12_Witness ==
    \E o \in Ops :
        /\ store.op[o].kind = "remove_channel" /\ store.op[o].pc = "done"
        /\ store.op[o].arg = <<"A", "b">> /\ store.op[o].ret = "false"
        /\ InList(ChanAb, required_channels)

\* the configuration a call makes of cfg when it runs alone
SeqApply(cfg, c) ==
    IF c.kind = "set_chat_id" THEN [cfg EXCEPT !.chat_id = c.id]
    ELSE IF c.kind = "add_channel"
    THEN [cfg EXCEPT !.required_channels = add_channel_list(@, c.arg)]
    ELSE IF c.kind = "remove_channel"
    THEN [cfg EXCEPT !.required_channels = remove_channel_list(@, c.arg)]
    ELSE cfg

\* the call has read the file and has not yet returned
Loaded(c) == c.pc \in {"modify", "mkstemp", "dump", "replace", "release"}

\* C13: at every statement of a mutating call, so wherever the process may
\* stop, the config file is a whole document (or still absent) that holds
\* the configuration from before the call or the one after it.
C13_CrashAtomic ==
    /\ store.file \in {"absent", "whole"}
    /\ \A o \in Ops :
           LET c == store.op[o]
           IN  (Mutating(c) /\ Loaded(c))
                   => (FileConfig = c.before \/ FileConfig = SeqApply(c.before, c))

\* the process stopped while json.dump was writing
C13_Witness ==
    /\ store.crashed
    /\ \E o \in Ops : store.op[o].pc = "dump" /\ store.op[o].tmp = "partial"

\* the call is between acquiring and releasing its lock
InCritical(o) ==
    store.op[o].pc \in {"load", "modify", "mkstemp", "dump", "replace", "release"}

\* C14: no two store calls are inside their critical sections at once, be
\* they made on one ConfigStore object or on the two objects of the process.
C14_MutualExclusion ==
    \A o1 \in Ops, o2 \in Ops : (o1 # o2 /\ InCritical(o1)) => ~InCritical(o2)

\* a call on the handlers' object in its critical section after a mutating
\* call on main()'s object
C14_Witness ==
    \E o1 \in Ops, o2 \in Ops :
        /\ InCritical(o1) /\ store.op[o1].obj = "handlers"
        /\ store.op[o2].pc = "done" /\ store.op[o2].obj = "main"
        /\ Mutating(store.op[o2])

\* C15: the file changes only when a call replaces it, and then to what that
\* call alone makes of the file as it is at that moment; a call that returns
\* without a save would have changed nothing: the calls take effect one after
\* another, none undoing another.
C15_NoLostUpdate ==
    [][/\ (FileConfig' # FileConfig)
              => \E o \in Ops : store.op[o].pc = "replace" /\ store'.op[o].pc = "release"
       /\ \A o \in Ops :
            LET c == store.op[o]
            IN  /\ (c.pc = "replace" /\ store'.op[o].pc = "release")
                       => FileConfig' = SeqApply(FileConfig, c)
                /\ (c.pc = "modify" /\ store'.op[o].pc = "release")
                       => SeqApply(FileConfig, c) = FileConfig
      ]_vars

\* an add_channel and a set_chat_id have both returned and both show
C15_Witness ==
    \E o1 \in Ops, o2 \in Ops :
        /\ store.op[o1].kind = "add_channel" /\ store.op[o1].pc = "done"
        /\ store.op[o1].ret = "true"
        /\ store.op[o2].kind = "set_chat_id" /\ store.op[o2].pc = "done"
        /\ chat_id = store.op[o2].id
        /\ InList(NormalForm(store.op[o1].arg), required_channels)

\* whose message, and of what kind, a message id names
Names(S, id) ==
    IF id < 0 THEN <<-id, "message">>
    ELSE LET m == CHOOSE m \in S.sent : m.id = id IN <<m.user, m.kind>>

\* the shared state with its message ids, which the platform hands out in
\* the order of the sends, replaced by what they name
Outcome(S) ==
    [welcomed |-> S.welcomed,
     sub |-> S.sub,
     notice |-> S.notice,
     last |-> [k \in DOMAIN S.last |->
                  [exp |-> S.last[k].exp, value |-> Names(S, S.last[k].value)]],
     sent |-> { [chat |-> m.chat, user |-> m.user, kind |-> m.kind, at |-> m.at] :
                  m \in S.sent },
     attempts |-> { [chat |-> a.chat, by |-> a.by, of |-> Names(S, a.id)] :
                      a \in S.attempts }]

\* the shared state as the two handlers have left it
Reached ==
    [welcomed |-> welcomed_cache, sub |-> sub_cache, notice |-> notice_cache,
     last |-> last_notice, sent |-> sent, attempts |-> attempts, next_id |-> next_id]

\* the handler of message p first, the handler of message q after it
InOrder(p, q) ==
    guard_alone(guard_alone(Shared(script.hist), p, PairMessage(p), script.upd[p]),
                q, PairMessage(q), script.upd[q])

BothDone == \A p \in Pair : task[p].pc = "done"

\* C16: when the handlers of two users' messages have both ended, however
\* they were interleaved at their awaited platform calls, the dedup,
\* last-notice, welcome and subscription caches and the sets of sent and of
\* deleted messages are those that one of the two sequential orders leaves.
C16_InterleavingSerializable ==
    BothDone => (Outcome(Reached) = Outcome(InOrder(1, 2))
                    \/ Outcome(Reached) = Outcome(InOrder(2, 1)))

\* both handlers ended, each greeted and reminded its user, and user 2 was
\* greeted after user 1 but reminded before
C16_Witness ==
    /\ BothDone
    /\ \E g1, g2, r1, r2 \in sent :
          /\ g1.kind = "greet" /\ g1.user = 1 /\ g2.kind = "greet" /\ g2.user = 2
          /\ r1.kind = "reminder" /\ r1.user = 1 /\ r2.kind = "reminder" /\ r2.user = 2
          /\ g1.id < g2.id /\ g2.id < r2.id /\ r2.id < r1.id

\* the sender the allowlist lets through
Authorized(user_id) == user_id # NoneId /\ (admins = {} \/ user_id \in admins)

\* the step is one of the handler of a chat-picker update
StepOf(p) == task'[p] # task[p] /\ task'[p].kind = "shared"

\* C17: a sender is authorized exactly when it is present and the allowlist
\* is empty or lists it; chat_id and required_channels change, and a reply
\* is posted, only in a step of the handler of an authorized sender's
\* chat-picker update; an unauthorized update ends at once, with the store
\* as it was and no reply.
C17_AdminAuthorization ==
    [][/\ \A u \in {NoneId, 1, 2} : ~is_not_authorized(u) <=> Authorized(u)
       /\ (chat_id' # chat_id \/ required_channels' # required_channels \/ sent' # sent)
              => \E p \in Tasks : StepOf(p) /\ Authorized(task'[p].user)
       /\ \A p \in Tasks :
              (StepOf(p) /\ ~Authorized(task'[p].user))
                  => /\ task'[p].pc = "done"
                     /\ chat_id' = chat_id
                     /\ required_channels' = required_channels
                     /\ sent' = sent
      ]_vars

\* with user 1 alone listed, user 2's "assign target chat" pick was dropped
\* and user 1's was applied and answered
C17_Witness ==
    /\ admins = {1}
    /\ \E p, q \in Tasks :
          /\ task[p].kind = "shared" /\ task[p].pc = "done" /\ task[p].user = 2
          /\ task[p].request_id = 42 /\ task[p].shared = -7
          /\ task[q].kind = "shared" /\ task[q].pc = "done" /\ task[q].user = 1
          /\ task[q].request_id = 42 /\ task[q].shared = -1009
          /\ chat_id = -1009
          /\ \E m \in sent : m.kind = "reply" /\ m.user = 1
          /\ ~\E m \in sent : m.user = 2

\* l without one of its entries
OneRemoved(l, k) ==
    \E i \in 1..Len(l) : k = SubSeq(l, 1, i - 1) \o SubSeq(l, i + 1, Len(l))

\* C18: in the handler of an authorized chat-picker update, request 42
\* changes chat_id alone, to the picked chat; 43 and 45 leave chat_id and at
\* most append one entry to required_channels; 44 and 46 leave chat_id and
\* at most remove an entry; any other request_id leaves both as they are.
C18_PickerDispatch ==
    [][\A p \in Tasks :
         StepOf(p) =>
            LET t == task'[p]
            IN  /\ t.request_id = 42
                     => /\ required_channels' = required_channels
                        /\ chat_id' = chat_id \/ chat_id' = t.shared
                /\ t.request_id \in {43, 45}
                     => /\ chat_id' = chat_id
                        /\ \/ required_channels' = required_channels
                           \/ \E x \in {Str(t.shared), <<"@">> \o ChatUsername(t.shared)} :
                                  required_channels' = Append(required_channels, x)
                /\ t.request_id \in {44, 46}
                     => /\ chat_id' = chat_id
                        /\ \/ required_channels' = required_channels
                           \/ OneRemoved(required_channels, required_channels')
                /\ t.request_id \notin {42, 43, 44, 45, 46}
                     => /\ chat_id' = chat_id
                        /\ required_channels' = required_channels
      ]_vars

\* a "select chat" pick (45) added the group and a "remove channel" pick (44)
\* of the same chat removed it again, the target chat never set
C18_Witness ==
    \E p, q \in Tasks :
        /\ task[p].kind = "shared" /\ task[p].pc = "done"
        /\ task[p].request_id = 45 /\ task[p].ret = "true" /\ task[p].shared = -7
        /\ task[q].kind = "shared" /\ task[q].pc = "done"
        /\ task[q].request_id = 44 /\ task[q].ret = "true" /\ task[q].shared = -7
        /\ required_channels = <<>>
        /\ chat_id = NoneId

\* C19: whichever platform call of a handler fails, no exception leaves the
\* handler: it ends normally.
C19_NoFailureEscapes ==
    \A p \in Tasks : ~task[p].exc

\* C20: for every chat and user, no two greetings are posted within
\* WelcomeTtl seconds of one another.
C20_OneGreetingPerWeek ==
    \A g1 \in sent, g2 \in sent :
        (/\ g1.kind = "greet" /\ g2.kind = "greet"
         /\ g1.chat = g2.chat /\ g1.user = g2.user
         /\ g1.at <= g2.at /\ g2.at - g1.at < WelcomeTtl)
            => g1.id = g2.id

\* the normalizer named, applied to v
Normalized(name, v) ==
    IF name = "_normalize_identifier" THEN _normalize_identifier(v)
    ELSE IF name = "add_channel" THEN add_channel_norm(v)
    ELSE _parse_required_channels_item(v)

\* C21: each normalizer gives its own result back when applied to it; a
\* numeric identifier, optionally negative, comes out as it went in, and a
\* result that is not numeric begins with "@".
C21_NormalizeIdempotent ==
    fn.op \in {"_normalize_identifier", "add_channel", "_parse_required_channels"}
        => /\ Normalized(fn.op, fn.b) = fn.b
           /\ IsNumericIdent(fn.a) => fn.b = fn.a
           /\ ~IsNumericIdent(fn.b) => StartsWith(fn.b, <<"@">>)

\* _normalize_identifier made "@a" of " @a"
C21_Witness ==
    /\ fn.op = "_normalize_identifier"
    /\ fn.a = <<" ", "@", "a">>
    /\ fn.b = <<"@", "a">>

\* C22: set_until(k, ttl) stores the expiry now + ttl under k and touches no
\* other key; contains(k) returns true exactly when k is stored and now is
\* not past its expiry, and a lookup past the expiry removes k from the map;
\* the map never holds more than one entry per key, and TTLKVCache.get
\* returns and evicts by the same rule.
C22_TtlExpiry ==
    [][/\ fn'.op = "set_until"
            => /\ DOMAIN notice_cache' = DOMAIN notice_cache \cup {fn'.a}
               /\ notice_cache'[fn'.a] = now + fn'.b
               /\ \A k \in DOMAIN notice_cache \ {fn'.a} : notice_cache'[k] = notice_cache[k]
       /\ fn'.op = "contains"
            => LET k == fn'.a
                   stored == k \in DOMAIN notice_cache
               IN  /\ fn'.res <=> (stored /\ now <= notice_cache[k])
                   /\ (stored /\ now > notice_cache[k])
                          => (k \notin DOMAIN notice_cache'
                              /\ DOMAIN notice_cache' = DOMAIN notice_cache \ {k})
                   /\ fn'.res => notice_cache' = notice_cache
       /\ fn'.op = "get"
            => LET k == fn'.a
                   stored == k \in DOMAIN last_notice
               IN  /\ fn'.res <=> (stored /\ now <= last_notice[k].exp)
                   /\ (stored /\ now > last_notice[k].exp) => k \notin DOMAIN last_notice'
                   /\ fn'.res => (last_notice' = last_notice /\ fn'.b = last_notice[k].value)
       /\ DOMAIN notice_cache' \subseteq CacheKeys
       /\ DOMAIN last_notice' \subseteq CacheKeys
      ]_vars

\* a lookup one second past the entry's expiry returned false and left the
\* map empty
C22_Witness ==
    /\ fn.op = "contains" /\ ~fn.res
    /\ fn.b # 0 /\ now = fn.b + 1
    /\ notice_cache = EmptyDict

\* the list in force: the stored one, the static one when none is stored
InForce == IF Len(required_channels) > 0 THEN required_channels ELSE static_channels

\* the chat of a chat_member update is on the list l
OnList(l, chat, uname) ==
    \E i \in 1..Len(l) :
        IF IsNumericIdent(l[i]) THEN IntOf(l[i]) = chat
        ELSE uname # NoStr /\ Lower(l[i]) = <<"@">> \o Lower(uname)

\* C23: the subscription check queries the channels of the stored list when
\* it is not empty and of the static list otherwise, the reminder is
\* composed from that same list, and a leave or join update is matched
\* against it: never against both lists together.
C23_StoredListFirst ==
    [][\A p \in Tasks :
        LET t == task[p]
            u == task'[p]
        IN  /\ (~t.listed /\ u.listed)
                   => /\ u.nch = Len(InForce)
                      /\ u.pc = "sub_q" => u.chans = InForce
            /\ (Len(u.trace) > Len(t.trace) /\ u.trace[Len(u.trace)] \in {"dedup_miss", "send"}
                    /\ "dedup_miss" \notin {t.trace[i] : i \in DOMAIN t.trace}
                    /\ t.pc \in {"idle", "del_msg"})
                   => u.cvals = InForce
            /\ (t.pc = "idle" /\ u.kind = "join")
                   => (u.trace # <<>> <=> OnList(InForce, u.chat, u.uname))
            /\ (t.pc = "idle" /\ u.kind = "leave" /\ chat_id # NoneId)
                   => (u.trace # <<>> <=> OnList(InForce, u.chat, u.uname))
      ]_vars

\* with "-1009" stored and "@Ab" static, the join update of the chat named
\* "aB" was not matched, and a reminder was composed from the stored list
C23_Witness ==
    /\ required_channels = <<Chan1009>>
    /\ static_channels = <<ChanAb>>
    /\ \E p, q \in Tasks :
          /\ task[p].kind = "join" /\ task[p].uname = <<"a", "B">>
          /\ task[p].pc = "done" /\ task[p].trace = <<>>
          /\ task[q].cvals = <<Chan1009>> /\ task[q].pc \in {"get_chat", "send"}

\* the step constructs a StateService
Constructs == fn'.op = "StateService" /\ fn' # fn

\* the file is there and json.load rejects it
Corrupt == store.file \in {"empty", "partial"}

\* with no file, a read returns the empty default; and no step of a read
\* writes: the file changes only in os.replace of a mutating call or in
\* the construction of a StateService
C24_AbsentReadsDefault ==
    /\ \A o \in Ops :
          LET c == store.op[o]
              d == store'.op[o]
          IN  (c.pc = "load" /\ d.pc = "release" /\ ~Mutating(c) /\ store.file = "absent")
                  => (d.ret = "ok" /\ d.before = DefaultConfig /\ store'.file = "absent")
    /\ (store'.file # store.file \/ chat_id' # chat_id
            \/ required_channels' # required_channels)
          => \/ Constructs
             \/ \E o \in Ops : Mutating(store.op[o]) /\ store.op[o].pc = "replace"
                                  /\ store'.op[o].pc = "release"

\* a StateService constructed on a corrupt file leaves a whole file that
\* holds the chat id and the normalized channels passed to it
C24_StateServiceOverwrites ==
    (Constructs /\ Corrupt)
        => /\ store'.file = "whole"
           /\ chat_id' = fn'.a
           /\ required_channels' =
                  [i \in 1..Len(InitialChannels[fn'.b]) |->
                      NormalForm(InitialChannels[fn'.b][i])]

\* the claim as stated: with a corrupt file every ConfigStore call ends in
\* an error
C24_EveryCallFails ==
    [][/\ C24_AbsentReadsDefault
       /\ C24_StateServiceOverwrites
       /\ Corrupt
            => \A o \in Ops :
                  /\ (store'.op[o] # store.op[o] /\ store'.op[o].pc = "done")
                         => store'.op[o].ret = "error"
                  /\ ~Constructs => (store'.file = store.file /\ chat_id' = chat_id
                                        /\ required_channels' = required_channels)
      ]_vars

\* C24: with no config file every ConfigStore read returns the empty
\* default and writes nothing; with a file that is not valid JSON every
\* ConfigStore call that reads the file ends in an error, add_channel of a
\* blank channel returns false without reading it, and all leave the file
\* as it is; the construction of a StateService replaces such a file by the
\* chat id and the normalized channels passed to it.
C24_AbsentAndCorrupt ==
    [][/\ C24_AbsentReadsDefault
       /\ C24_StateServiceOverwrites
       /\ Corrupt
            => \A o \in Ops :
                  LET c == store.op[o]
                      d == store'.op[o]
                  IN  /\ (c.pc = "load" /\ d.pc # "load") => (d.pc = "release" /\ d.ret = "error")
                      /\ Returns(o) => d.ret = "error"
                      /\ (d # c /\ d.pc = "done" /\ ~Returns(o))
                             => (d.kind = "add_channel" /\ Strip(d.arg) = <<>>
                                 /\ d.ret = "false")
                      /\ ~Constructs => (store'.file = store.file /\ chat_id' = chat_id
                                            /\ required_channels' = required_channels)
      ]_vars

\* a call failed on the corrupt file, then a StateService was constructed
\* on it with the chat id -7 and the channel "Ab"
C24_Witness ==
    /\ fn.op = "StateService" /\ fn.res
    /\ store.file = "whole"
    /\ chat_id = -7
    /\ required_channels = <<ChanAb>>
    /\ \E o \in Ops : store.op[o].pc = "done" /\ store.op[o].ret = "error"
                         /\ store.op[o].kind = "set_chat_id"

-----------------------------------------------------------------------------
(* The edited-message guard.                                               *)

\* a step of the handler of an edited message in slot p, the platform's
\* answer to its awaited call included
EditedStep(p) == task'[p] # task[p] /\ task'[p].kind = "edited"

\* the delete of the edited message itself
OwnDelete(t) == [chat |-> t.chat, id |-> t.msg, by |-> "del_edit"]

\* C25: a step of guard_edited_message sends nothing, schedules nothing and
\* leaves the dedup, last-notice and welcome caches as they are; the only
\* call it makes besides the subscription check is the delete of the edited
\* message, made exactly when the sender is a user, the chat is the target
\* chat and is_fully_subscribed returned false; a handler that found no
\* sender, a bot, no target or another chat ends at once with the
\* subscription cache untouched.
C25_EditedGuardOnlyDeletes ==
    [][\A p \in Tasks : EditedStep(p) =>
          LET t == task[p]
              u == task'[p]
          IN  /\ sent' = sent /\ timers' = timers /\ next_id' = next_id
              /\ notice_cache' = notice_cache
              /\ last_notice' = last_notice
              /\ welcomed_cache' = welcomed_cache
              /\ attempts' # attempts
                    => (t.ret = "false" /\ attempts' = attempts \cup {OwnDelete(t)})
              /\ u.ret # "none"
                    => (u.from = "user" /\ chat_id # NoneId
                        /\ _is_target_chat(u.chat, chat_id))
              /\ (t.pc = "idle" /\ (u.from # "user" \/ chat_id = NoneId
                                     \/ ~_is_target_chat(u.chat, chat_id)))
                    => (u.pc = "done" /\ u.ret = "none" /\ u.trace = <<>>
                        /\ sub_cache' = sub_cache)
              /\ u.pc = "done"
                    => (OwnDelete(u) \in attempts' <=> u.ret = "false")
      ]_vars

\* an edited message of an unsubscribed user was handled after the same
\* user had been greeted and reminded: the delete was attempted, and the
\* three caches hold the entries the earlier message left
C25_Witness ==
    \E p \in Tasks :
        /\ task[p].kind = "edited" /\ task[p].pc = "done" /\ task[p].ret = "false"
        /\ OwnDelete(task[p]) \in attempts
        /\ <<task[p].chat, task[p].user>> \in DOMAIN notice_cache
        /\ <<task[p].chat, task[p].user>> \in DOMAIN last_notice
        /\ <<task[p].chat, task[p].user>> \in DOMAIN welcomed_cache
        /\ Cardinality(sent) = 2

-----------------------------------------------------------------------------
(* The picker's add and remove, one after the other.                       *)

\* t handles an authorized pick of chat c with a button of the branch b
PickOf(t, b, c) ==
    /\ t.kind = "shared" /\ Authorized(t.user)
    /\ picker_branch(t.request_id) = b /\ t.shared = c

\* C26: starting from the empty list, an authorized add-pick of a chat
\* followed by an authorized remove-pick of the same chat leaves
\* required_channels empty again, whatever the get_chat lookups answered.
C26_PickerRoundTrip ==
    \A c \in PickedChats :
        (/\ PickOf(task[1], "add_channel", c)
         /\ PickOf(task[2], "remove_channel", c)
         /\ task[2].pc \in {"answer", "done"})
            => required_channels = <<>>

-----------------------------------------------------------------------------
(* The age of a positive answer.                                           *)

\* is_fully_subscribed returns true to the handler in slot p in this step
ReturnsTrue(p) == task[p].ret # "true" /\ task'[p].ret = "true"

\* ... after every channel of the list it read had reported membership
FullCheck(p) ==
    /\ ReturnsTrue(p)
    /\ task'[p].listed
    /\ task'[p].nq = task'[p].nch
    /\ task'[p].nch > 0 => (Resumed(p, {"sub_q"}) /\ status_ok(task[p].reply))

\* the subscription entry of user u is written or overwritten
Stored(u) ==
    /\ u \in DOMAIN sub_cache'
    /\ u \notin DOMAIN sub_cache \/ sub_cache'[u] # sub_cache[u]

-----------------------------------------------------------------------------
(* Negative answers.                                                       *)

\* is_fully_subscribed returns false to the handler in slot p in this step
ReturnsFalse(p) == task[p].ret # "false" /\ task'[p].ret = "false"

\* C28: when is_fully_subscribed returns false for a user, the subscription
\* cache holds no entry for that user; and an entry is written only by a
\* full check that succeeded for its user.
C28_NegativeNeverCached ==
    [][/\ \A p \in Tasks : ReturnsFalse(p) => task'[p].user \notin DOMAIN sub_cache'
       /\ \A u \in Users : Stored(u) => \E p \in Tasks : FullCheck(p) /\ task'[p].user = u
      ]_vars

-----------------------------------------------------------------------------
(* The keys of the notice caches.                                          *)

\* C29: every dedup and last-notice entry, whichever flow wrote it, is
\* keyed by the stored target chat id and the user, so that the leave and
\* join flows, which look up (target chat, user), read the entries the
\* message flow wrote, also for a message whose chat id is the other form
\* of the target chat's id.
C29_OneKeyPerTargetUser ==
    \A k \in (DOMAIN notice_cache) \cup (DOMAIN last_notice) : k[1] = chat_id

-----------------------------------------------------------------------------
(* The dedup window.                                                       *)

\* the handler in slot p learns in this step that its reminder was sent
ReminderSent(p) == Resumed(p, {"send"}) /\ task[p].reply.r = "ok" /\ task'[p] # task[p]

\* guard_message in slot p makes its dedup lookup in this step
DedupLookup(p) ==
    /\ Resumed(p, {"del_msg"}) /\ task[p].kind = "guard" /\ task'[p] # task[p]

\* C30: a dedup entry is written only when a reminder has been sent, and
\* expires notify_ttl_seconds after that; the lookup of an offending message
\* that finds the entry live ends the handler and leaves the expiry as it
\* is; the lookup of one handled after the expiry, or with no entry, goes
\* on to compose and send a new reminder.
C30_WindowFromLastReminder ==
    [][/\ \A k \in DOMAIN notice_cache' :
              (k \notin DOMAIN notice_cache \/ notice_cache'[k] # notice_cache[k])
                  => /\ notice_cache'[k] = now + NotifyTtl
                     /\ \E p \in Tasks : ReminderSent(p) /\ k = <<task[p].kchat, task[p].user>>
       /\ \A p \in Tasks : DedupLookup(p) =>
              LET k == <<task[p].chat, task[p].user>>
              IN  IF k \in DOMAIN notice_cache /\ now <= notice_cache[k]
                  THEN /\ task'[p].pc = "done"
                       /\ notice_cache' = notice_cache
                       /\ sent' = sent
                  ELSE /\ task'[p].pc \in {"get_chat", "send"}
                       /\ k \notin DOMAIN notice_cache'
      ]_vars

\* a reminder was sent at time 0, a message of the user was suppressed on a
\* live entry, and a message handled after the window of the first reminder
\* got a new reminder, from which the window now runs
C30_Witness ==
    \E p, q \in Tasks :
        /\ task[p].kind = "guard" /\ task[p].pc = "done"
        /\ \E i \in DOMAIN task[p].trace : task[p].trace[i] = "dedup_hit"
        /\ task[q].kind = "guard" /\ task[q].pc = "done"
        /\ \E i \in DOMAIN task[q].trace : task[q].trace[i] = "mark"
        /\ now > NotifyTtl
        /\ \E m1, m2 \in sent :
              /\ m1.kind = "reminder" /\ m1.at = 0
              /\ m2.kind = "reminder" /\ m2.at = now
              /\ m1.user = task[q].user /\ m2.user = task[q].user
        /\ notice_cache[<<task[q].chat, task[q].user>>] = now + NotifyTtl

-----------------------------------------------------------------------------
(* Notice entries and the reminders behind them.                           *)

\* a reminder was sent to user k[2] in chat k[1]
ReminderFor(k) == \E m \in sent : m.kind = "reminder" /\ m.chat = k[1] /\ m.user = k[2]

\* the handler in slot p learns in this step that the send of its reminder
\* raised
SendFailed(p) == Resumed(p, {"send"}) /\ task[p].reply.r # "ok" /\ task'[p] # task[p]

\* the leave handler in slot p makes its dedup lookup in this step
LeaveLookup(p) ==
    task[p].pc = "idle" /\ task'[p].kind = "leave" /\ task'[p].trace # <<>>

C31_EntriesHaveReminder ==
    \A k \in (DOMAIN notice_cache) \cup (DOMAIN last_notice) : ReminderFor(k)

C31_FailedSendWritesNothing ==
    [][\A p \in Tasks :
          /\ SendFailed(p) =>
                (/\ notice_cache' = notice_cache /\ last_notice' = last_notice
                 /\ timers' = timers /\ task'[p].pc = "done")
          /\ (DedupLookup(p) /\ ~ReminderFor(<<task[p].chat, task[p].user>>))
                => task'[p].pc \in {"get_chat", "send"}
          /\ (LeaveLookup(p) /\ ~ReminderFor(<<task'[p].kchat, task'[p].user>>))
                => task'[p].pc \in {"get_chat", "send"}
      ]_vars

\* C31: every dedup entry and every last-notice entry belongs to a (chat,
\* user) for which a reminder was sent; a send that raised leaves both
\* caches and the scheduled deletes as they were and ends the handler; and
\* as long as no reminder was sent for the pair, the dedup lookup of the
\* next offending message or leave event goes on to the reminder.
C31_DedupImpliesSentReminder == []C31_EntriesHaveReminder /\ C31_FailedSendWritesNothing

\* the send of a message's reminder raised and nothing was recorded; the
\* same user's next message found no entry and its reminder is on its way
C31_Witness ==
    \E p, q \in Tasks :
        /\ task[p].kind = "guard" /\ task[p].pc = "done" /\ task[p].exc
        /\ task[q].kind = "guard" /\ task[q].pc = "send"
        /\ task[q].user = task[p].user /\ task[q].chat = task[p].chat
        /\ task[q].trace[Len(task[q].trace) - 1] = "dedup_miss"
        /\ notice_cache = EmptyDict /\ last_notice = EmptyDict
        /\ Reminders = {}

-----------------------------------------------------------------------------
(* No required channel at all.                                             *)

\* the handler in slot p calls is_fully_subscribed in this step
CallsSub(p) ==
    /\ task'[p] # task[p]
    /\ \A i \in DOMAIN task[p].trace : task[p].trace[i] # "sub"
    /\ \E i \in DOMAIN task'[p].trace : task'[p].trace[i] = "sub"

\* the handler's call of is_fully_subscribed found no channel to check
NothingRequired(t) == t.listed /\ t.nch = 0

\* C32: a call of is_fully_subscribed made while the stored and the static
\* list are both empty returns true at once, without a query, and leaves a
\* live cache entry for the user, written for ttl_seconds unless one was
\* there; the handler of a message whose check found nothing required
\* makes no delete attempt for the message and goes to no reminder.
C32_EmptyRequirementSet ==
    [][\A p \in Tasks :
          LET t == task[p]
              u == task'[p]
          IN  /\ (CallsSub(p) /\ required_channels = <<>> /\ static_channels = <<>>)
                    => /\ u.ret = "true" /\ u.nq = 0 /\ u.pc # "sub_q"
                       /\ u.user \in DOMAIN sub_cache'
                       /\ now <= sub_cache'[u.user]
                       /\ u.listed => (u.nch = 0 /\ sub_cache'[u.user] = now + CacheTtl)
                       /\ ~u.listed => sub_cache' = sub_cache
              /\ (u.kind \in {"guard", "edited"} /\ NothingRequired(u))
                    => /\ u.ret = "true"
                       /\ TagAt(u, {"del_msg", "del_edit", "dedup_hit", "dedup_miss",
                                    "send", "mark"}) = {}
                       /\ \A a \in attempts' : a.id # u.msg
                       /\ (t.kind = u.kind /\ u # t) => sent' = sent
      ]_vars

\* with nothing required, a user's message in the target chat was let
\* through: the user is cached as subscribed, no query was made, nothing
\* was deleted and no reminder was sent
C32_Witness ==
    \E p \in Tasks :
        /\ task[p].kind = "guard" /\ task[p].pc = "done"
        /\ NothingRequired(task[p]) /\ task[p].ret = "true" /\ task[p].nq = 0
        /\ required_channels = <<>> /\ static_channels = <<>>
        /\ chat_id # NoneId /\ _is_target_chat(task[p].chat, chat_id)
        /\ task[p].user \in DOMAIN sub_cache
        /\ attempts = {} /\ Reminders = {}
        /\ \E m \in sent : m.kind = "greet" /\ m.user = task[p].user

====
